---- MODULE Spec2Model ----
(***************************************************************************)
(* Verifiable time-range query engine over the CCF ledger (TPC-C sample):   *)
(* ledger cursor, verified ledger reader, snapshot writer / serializer /    *)
(* reader, snapshot index and the history query strategies.                 *)
(***************************************************************************)
EXTENDS Integers, Sequences, FiniteSets, TLC

(***************************************************************************)
(* Bounds of the model                                                      *)
(***************************************************************************)
MaxFrames == 3
MaxReplayFrames == 4
MaxKey == 2
MaxDate == 2
MaxLoop == 4
MaxResults == 4
MaxSnapshots == 2
MaxIndexFrames == 2
MaxPriv == 1
MaxResumeFrames == 5
MaxReads == 2
MaxCalls == 4

(***************************************************************************)
(* Program constants                                                        *)
(***************************************************************************)
TXN_SIZE_FIELD == 4
DOMAIN_SIZE_FIELD == 8
GCM_SIZE_TAG == 16
GCM_SIZE_IV == 12
GCM_SIZE_FIELD == GCM_SIZE_TAG + GCM_SIZE_IV
SIZE_FIELD == 4
HEADER_SIZE_FIELD == 2
HASH_LEN == 32
\* Merkle retention window (node/history.h), scaled to the model's ledgers
MAX_HISTORY_LEN == 3

VARIABLES
  ledger,         \* the ledger file "0.ledger": the frames appended so far
  updates,        \* SnapshotWriter::updates (table name -> deque of updates)
  ledger_offset,  \* SnapshotWriter::ledger_offset
  snap_file,      \* the snapshot file written last (sequence of tokens)
  snap_rec,       \* the Snapshot record returned by the last create()
  snap_by,        \* who wrote snap_file: "none", "kv" (SnapshotWriter), "app"
  rd,             \* the SnapshotReader that read snap_file last
  disk,           \* the files snapshot_v<version> that snap_rec or a record
                  \* of the SnapshotManager names
  snapshots,      \* SnapshotManager::snapshots, ordered by index_value
  ins,            \* the multi_skip_list insert under way in append, if any
  snap,           \* the application's Snapshot object (app/snapshot.h)
  date_from,      \* HistoryQuery::date_from
  date_to,        \* HistoryQuery::date_to
  q,              \* the running query: strategy, position, caller's results
  reader,         \* the query's LedgerReader (or its bare Ledger iterator)
  rb              \* locals of the running LedgerReader::read_batch

wvars == <<updates, ledger_offset, snap_file, snap_rec, snap_by, rd, disk,
           snapshots, ins, snap>>
qvars == <<date_from, date_to, q, reader, rb>>
vars == <<ledger, wvars, qvars>>

(***************************************************************************)
(* Generic helpers                                                          *)
(***************************************************************************)
Range(s) == {s[i] : i \in 1..Len(s)}

\* F(1) + ... + F(n)
RECURSIVE SumTo(_, _)
SumTo(F(_), n) == IF n = 0 THEN 0 ELSE F(n) + SumTo(F, n - 1)

RECURSIVE Flatten(_)
Flatten(ss) == IF ss = <<>> THEN <<>> ELSE Head(ss) \o Flatten(Tail(ss))

\* All orders (permutation sequences) of the finite set S
RECURSIVE Orders(_)
Orders(S) ==
  IF S = {} THEN {<<>>}
  ELSE UNION {{<<x>> \o o : o \in Orders(S \ {x})} : x \in S}

(***************************************************************************)
(* Data model: history values, table sections, frames                       *)
(***************************************************************************)
Keys == 1..MaxKey
Dates == 1..MaxDate
\* the default TimePoint (epoch); parse of a date string never yields it here
NullTime == 0

\* tpcc::History, reduced to the two fields the engine reads
History(c, d) == [c_id |-> c, date |-> d]
\* the customer id stored with history key k at date d
CIdOf(k, d) == 10 * d + k + 1

Section(n, w, r) == [name |-> n, writes |-> w, removes |-> r]

\* One ledger frame: version, table sections of the public payload in file
\* order, and the size of the private payload that follows the public one.
Frame(v, secs, p) == [ver |-> v, secs |-> secs, priv |-> p]

\* ccf::Signature value {node, sig}: sig names what the node signed
SigValue(n, upto) == [node |-> n, upto |-> upto]

FrameKinds ==
     {[k |-> "W", key |-> key, date |-> d] : key \in Keys, d \in Dates}
  \cup {[k |-> "R", key |-> key, date |-> 0] : key \in Keys}
  \cup {[k |-> "S", key |-> 0, date |-> 0], [k |-> "O", key |-> 0, date |-> 0]}

\* The frame of kind fk committed at version v
MakeFrame(fk, v) ==
  CASE fk.k = "W" ->
         Frame(v, <<Section("histories",
                      << <<fk.key, History(CIdOf(fk.key, fk.date), fk.date)>> >>,
                      <<>>)>>, 0)
    [] fk.k = "R" ->
         Frame(v, <<Section("histories", <<>>, <<fk.key>>)>>, 0)
    [] fk.k = "S" ->
         Frame(v, <<Section("ccf.signatures",
                      << <<0, SigValue(1, v - 1)>> >>, <<>>)>>, 0)
    [] fk.k = "X" ->
         Frame(v, <<Section("ccf.signatures",
                      << <<0, SigValue(fk.key, v - 1)>> >>, <<>>)>>, 0)
    [] OTHER ->
         Frame(v, <<Section("orders", << <<v, [o_id |-> v]>> >>, <<>>)>>, 0)

\* the frames of a ledger on which a node that is not in the node table
\* (node 2) has signed: a history write, a signature of node 1, one of node 2
NodeFrameKinds ==
  {[k |-> "W", key |-> 1, date |-> 1], [k |-> "S", key |-> 0, date |-> 0],
   [k |-> "X", key |-> 2, date |-> 0]}

(***************************************************************************)
(* Packed (MessagePack) sizes                                               *)
(***************************************************************************)
NameLen(n) ==
  CASE n = "histories" -> 9
    [] n = "ccf.signatures" -> 14
    [] n = "orders" -> 6
    [] OTHER -> 1

\* packed string of at most 31 characters: one marker byte and the characters
PackedStrSize(n) == 1 + NameLen(n)

\* packed unsigned integer
PackedUIntSize(n) == IF n < 128 THEN 1 ELSE IF n < 256 THEN 2 ELSE 3

\* packed key (small unsigned integer) and packed value (array of the fields)
PackedKeySize(k) == PackedUIntSize(k)
PackedValSize(v) == 3

PairSize(kv) == PackedKeySize(kv[1]) + PackedValSize(kv[2])

SectionSize(s) ==
    1 + PackedStrSize(s.name) + 1 + 1
  + PackedUIntSize(Len(s.writes))
  + SumTo(LAMBDA i : PairSize(s.writes[i]), Len(s.writes))
  + PackedUIntSize(Len(s.removes))
  + SumTo(LAMBDA i : PackedKeySize(s.removes[i]), Len(s.removes))

PublicSize(f) ==
  PackedUIntSize(f.ver) + SumTo(LAMBDA i : SectionSize(f.secs[i]), Len(f.secs))

\* value of the frame_size field: everything after the 4-byte length prefix
FrameSize(f) == GCM_SIZE_FIELD + DOMAIN_SIZE_FIELD + PublicSize(f) + f.priv

\* byte offset of frame i of ledger L (the offset of its length prefix)
RECURSIVE FrameStart(_, _)
FrameStart(L, i) ==
  IF i <= 1 THEN 0
  ELSE FrameStart(L, i - 1) + TXN_SIZE_FIELD + FrameSize(L[i - 1])

FileSize(L) == FrameStart(L, Len(L) + 1)

(***************************************************************************)
(* kv::SnapshotWriter (src/kv/snapshot.h)                                   *)
(***************************************************************************)
EmptyMap == [n \in {} |-> <<>>]

\* KeyValueUpdate: (key bytes, value bytes, action)
KeyValueUpdate(k, v, a) == [key |-> k, val |-> v, action |-> a]
NoVal == [c_id |-> 0, date |-> 0]

\* append_update with push_back in place of push_front
append_update_back(upd, name, update) ==
  IF name \notin DOMAIN upd
  THEN [n \in DOMAIN upd \cup {name} |-> IF n = name THEN <<update>> ELSE upd[n]]
  ELSE [upd EXCEPT ![name] = @ \o <<update>>]

\* SnapshotWriter::append_update: the first update of a table starts its
\* deque, every later one is pushed to the front
append_update(upd, name, update) ==
  IF name \notin DOMAIN upd
  THEN [n \in DOMAIN upd \cup {name} |-> IF n = name THEN <<update>> ELSE upd[n]]
  ELSE [upd EXCEPT ![name] = <<update>> \o @]

\* the updates one table section contributes, in the order append_transaction
\* hands them to append_update: the writes, then the removes
SectionUpdates(s) ==
     [i \in 1..Len(s.writes) |->
        KeyValueUpdate(s.writes[i][1], s.writes[i][2], "WRITE")]
  \o [i \in 1..Len(s.removes) |-> KeyValueUpdate(s.removes[i], NoVal, "REMOVE")]

RECURSIVE AppendUpdates(_, _, _)
AppendUpdates(upd, name, us) ==
  IF us = <<>> THEN upd
  ELSE AppendUpdates(append_update(upd, name, Head(us)), name, Tail(us))

RECURSIVE AppendSections(_, _)
AppendSections(upd, secs) ==
  IF secs = <<>> THEN upd
  ELSE AppendSections(
         AppendUpdates(upd, Head(secs).name, SectionUpdates(Head(secs))),
         Tail(secs))

\* SnapshotWriter::append_transaction, the updates it leaves
append_transaction(upd, f) == AppendSections(upd, f.secs)

\* the value of `offset` when append_transaction leaves its loop: past the GCM
\* header, the size field and the public payload
ParsedLength(f) == GCM_SIZE_FIELD + DOMAIN_SIZE_FIELD + PublicSize(f)

(***************************************************************************)
(* kv::SnapshotSerializer and the snapshot file                             *)
(***************************************************************************)
\* The file is a sequence of tokens; a token knows its size in bytes.
TText(n) == [t |-> "text", n |-> n, s |-> "", kv |-> <<>>]
TStr(s) == [t |-> "str", n |-> 0, s |-> s, kv |-> <<>>]
TUInt(n) == [t |-> "uint", n |-> n, s |-> "", kv |-> <<>>]
TData(pairs) == [t |-> "data", n |-> 0, s |-> "", kv |-> pairs]

\* decimal digits of n as operator<< writes them
TextSize(n) == IF n < 10 THEN 1 ELSE IF n < 100 THEN 2 ELSE 3

DataSize(pairs) == SumTo(LAMBDA i : PairSize(pairs[i]), Len(pairs))

TokSize(tok) ==
  CASE tok.t = "text" -> TextSize(tok.n)
    [] tok.t = "str" -> PackedStrSize(tok.s)
    [] tok.t = "uint" -> PackedUIntSize(tok.n)
    [] OTHER -> DataSize(tok.kv)

TokensSize(toks) == SumTo(LAMBDA i : TokSize(toks[i]), Len(toks))

\* SnapshotSerializer::serialize_table, the loop over the deque: the pairs
\* written to data_buffer, given the keys already in added_keys
RECURSIVE SerializeWalk(_, _)
SerializeWalk(us, added_keys) ==
  IF us = <<>> THEN <<>>
  ELSE LET u == Head(us) IN
       IF u.key \in added_keys
       THEN SerializeWalk(Tail(us), added_keys)
       ELSE (IF u.action = "WRITE" THEN << <<u.key, u.val>> >> ELSE <<>>)
            \o SerializeWalk(Tail(us), added_keys \cup {u.key})

\* SnapshotSerializer::serialize_table: what it writes to the file for one
\* table (packed name, packed data size, data)
KvSerializeTable(name, us) ==
  LET data == SerializeWalk(us, {})
  IN  <<TStr(name), TUInt(DataSize(data)), TData(data)>>

\* Digest over the bytes handed to update_last, as an ideal hash: the digest
\* of a byte stream is determined by the stream and differs between streams.
\* A hash value is kept as (stream, number of bytes, corrupted positions).
HashBytes(stream) == [of |-> stream, len |-> HASH_LEN, bad |-> {}]
ByteAt(h, i) == IF i \in h.bad THEN <<-1, <<>>>> ELSE <<i, h.of>>

\* the bytes a writer or reader hashes for a file: every header and data
\* token, not the header_size text
HashedTokens(toks) == SelectSeq(toks, LAMBDA tok : tok.t # "text")

\* the date create() reads from the first WRITE of the histories deque
RECURSIVE FirstWriteDate(_)
FirstWriteDate(us) ==
  IF us = <<>> THEN NullTime
  ELSE IF Head(us).action = "WRITE" THEN Head(us).val.date
       ELSE FirstWriteDate(Tail(us))

\* SnapshotWriter::create with the tables visited in `order`: the file
CreateFile(upd, order) ==
  Flatten([i \in 1..Len(order) |-> KvSerializeTable(order[i], upd[order[i]])])

CreateIndexValue(upd) ==
  IF "histories" \in DOMAIN upd THEN FirstWriteDate(upd["histories"])
  ELSE NullTime

\* kv::Snapshot
Snapshot(version, offset, hash, index_value, merkle_file) ==
  [version |-> version, ledger_offset |-> offset, hash |-> hash,
   index_value |-> index_value, merkle_file |-> merkle_file]

NoSnapshot == Snapshot(0, 0, HashBytes(<<>>), NullTime, 0)

\* no insert into the SnapshotManager's list is under way
NoInsert == [active |-> FALSE, rec |-> NoSnapshot, p |-> 0]

(***************************************************************************)
(* The live KV table and the application's Snapshot (app/snapshot.h)        *)
(***************************************************************************)
\* the writes and removes of table `name` in ledger order, oldest first
RECURSIVE TableLog(_, _)
TableLog(L, name) ==
  IF L = <<>> THEN <<>>
  ELSE LET secs == SelectSeq(Head(L).secs, LAMBDA s : s.name = name)
       IN  Flatten([i \in 1..Len(secs) |-> SectionUpdates(secs[i])])
           \o TableLog(Tail(L), name)

\* index of the last update of key k in log us, 0 when there is none
LastIndexOf(us, k) ==
  LET I == {i \in 1..Len(us) : us[i].key = k}
  IN  IF I = {} THEN 0 ELSE CHOOSE i \in I : \A j \in I : j <= i

\* keys of the live table: those whose last committed update is a write
LiveKeys(L, name) ==
  LET us == TableLog(L, name)
  IN  {k \in {us[i].key : i \in 1..Len(us)} : us[LastIndexOf(us, k)].action = "WRITE"}

LiveValue(L, name, k) ==
  LET us == TableLog(L, name) IN us[LastIndexOf(us, k)].val

\* Snapshot::serialize_table of the application: header_size as decimal
\* text, then packed name, packed data size, and the pairs of the view in the
\* order foreach visits them
AppSerializeTable(name, pairs) ==
  LET hdr == <<TStr(name), TUInt(DataSize(pairs))>>
  IN  <<TText(TokensSize(hdr))>> \o hdr \o <<TData(pairs)>>

\* Snapshot::Snapshot(path, tx): the file is open and empty, nothing was
\* fed to the digest context; ops is the log of the calls made on the
\* object, each with whether it threw and, for hash(), what it returned
NewAppSnapshot ==
  [finalized |-> FALSE, file |-> <<>>, context |-> <<>>,
   digest |-> [of |-> <<>>, len |-> 0, bad |-> {}], ops |-> <<>>]

AppCall(op, err, val) == [op |-> op, err |-> err, val |-> val]

(***************************************************************************)
(* SnapshotReader (app/snapshot_reader.h)                                   *)
(***************************************************************************)
ReadResult(ok, names, bufs, hashed) ==
  [ok |-> ok, names |-> names, bufs |-> bufs, hashed |-> hashed]

\* first value stored under name in the table_buffers list (emplace keeps it)
BufferOf(bufs, name) ==
  LET I == {i \in 1..Len(bufs) : bufs[i][1] = name}
  IN  bufs[CHOOSE i \in I : \A j \in I : i <= j][2]

HasBuffer(bufs, name) == \E i \in 1..Len(bufs) : bufs[i][1] = name

\* The while loop of SnapshotReader::read: the cursor stands before token
\* pos, `offset` is the reader's own byte count.
RECURSIVE ReadBlocks(_, _, _, _, _, _)
ReadBlocks(toks, pos, offset, names, bufs, hashed) ==
  IF ~(offset < TokensSize(toks)) THEN ReadResult(TRUE, names, bufs, hashed)
  ELSE IF pos > Len(toks) \/ toks[pos].t # "text"
            \* fs >> header_size fails: header_size is 0, the stream is bad
            \* and the read of the header throws
       THEN ReadResult(FALSE, names, bufs, hashed)
  ELSE IF pos + 3 > Len(toks) \/ toks[pos + 1].t # "str"
            \/ toks[pos + 2].t # "uint" \/ toks[pos + 3].t # "data"
       THEN ReadResult(FALSE, names, bufs, hashed)
  ELSE LET header_size == toks[pos].n
           table_name == toks[pos + 1].s
           data_size == toks[pos + 2].n
           data == toks[pos + 3].kv
       IN  ReadBlocks(toks, pos + 4,
             offset + data_size + header_size + HEADER_SIZE_FIELD,
             Append(names, table_name),
             IF HasBuffer(bufs, table_name) THEN bufs
             ELSE Append(bufs, <<table_name, data>>),
             hashed \o <<toks[pos + 1], toks[pos + 2], toks[pos + 3]>>)

\* SnapshotReader::verify_hash: TRUE when it returns, FALSE when it throws.
\* signed_hash is the entry of the snapshots table, "none" when absent.
verify_hash(signed_hash, hash_bytes) ==
  /\ signed_hash.len >= 0
  /\ \A i \in 1..signed_hash.len : ByteAt(signed_hash, i) = ByteAt(hash_bytes, i)

AbsentHash == [of |-> <<>>, len |-> -1, bad |-> {}]

\* SnapshotReader::read on a fresh reader: the reader it leaves
Read(toks, signed_hash) ==
  LET r == ReadBlocks(toks, 1, 0, <<>>, <<>>, <<>>)
      good == r.ok /\ verify_hash(signed_hash, HashBytes(r.hashed))
  IN  [is_read |-> good,
       status |-> IF good THEN "ok" ELSE "error",
       table_names |-> IF good THEN r.names ELSE <<>>,
       table_buffers |-> r.bufs,
       digest |-> HashBytes(r.hashed),
       signed |-> signed_hash,
       calls |-> 1,
       last_names |-> IF good THEN r.names ELSE <<>>]

\* SnapshotReader::read on a reader whose is_read is set: lines 117-118
ReadAgain(r) == [r EXCEPT !.calls = @ + 1, !.last_names = <<>>]

\* calls counts the calls of read(), last_names is what the last returned
NewReader ==
  [is_read |-> FALSE, status |-> "new", table_names |-> <<>>,
   table_buffers |-> <<>>, digest |-> HashBytes(<<>>), signed |-> AbsentHash,
   calls |-> 0, last_names |-> <<>>]

\* a variant of get_table_snapshot that does not test is_read
get_table_snapshot_unread(r, table) ==
  IF HasBuffer(r.table_buffers, table) THEN BufferOf(r.table_buffers, table)
  ELSE <<>>

\* SnapshotReader::get_table_snapshot: the pairs of the table, <<>> for null
get_table_snapshot(r, table) ==
  IF ~r.is_read THEN <<>> ELSE BufferOf(r.table_buffers, table)

\* the trusted hashes a snapshots table may hold for a file whose writer
\* computed hash h
TrustedHashes(h) ==
  {h, AbsentHash,
   [h EXCEPT !.len = 0], [h EXCEPT !.len = HASH_LEN - 1],
   [h EXCEPT !.bad = {1}], [h EXCEPT !.bad = {HASH_LEN}],
   HashBytes(<<TStr("orders")>>)}

(***************************************************************************)
(* LedgerDomain and Ledger::iterator (app/ledger_util.h)                    *)
(***************************************************************************)
\* std::map built by emplace from pairs in file order: the first pair of a
\* key stays, iteration is by ascending key
RECURSIVE SortedSeq(_)
SortedSeq(S) ==
  IF S = {} THEN <<>>
  ELSE LET m == CHOOSE x \in S : \A y \in S : x <= y
       IN  <<m>> \o SortedSeq(S \ {m})

MapOf(pairs) ==
  LET ks == SortedSeq({pairs[i][1] : i \in 1..Len(pairs)})
      FirstOf(k) == pairs[CHOOSE i \in 1..Len(pairs) :
                            pairs[i][1] = k /\ \A j \in 1..(i - 1) : pairs[j][1] # k]
  IN  [i \in 1..Len(ks) |-> FirstOf(ks[i])]

HasSection(f, name) == \E i \in 1..Len(f.secs) : f.secs[i].name = name

FirstSection(f, name) ==
  f.secs[CHOOSE i \in 1..Len(f.secs) :
           f.secs[i].name = name /\ \A j \in 1..(i - 1) : f.secs[j].name # name]

\* LedgerDomain::LedgerDomain(buffer, length, table_names): the names kept are
\* the constructor's argument; the writes of the tables among them are stored
LedgerDomain(f, tables) ==
  [version |-> f.ver,
   table_names |-> tables,
   table_updates |->
     [n \in {f.secs[i].name : i \in 1..Len(f.secs)} \cap Range(tables) |->
        FirstSection(f, n).writes],
   signature |-> HasSection(f, "ccf.signatures")]

\* LedgerDomain::is_signature_txn
is_signature_txn(domain) == domain.signature

\* a LedgerDomain that std::move has emptied
MovedFrom(domain) ==
  [domain EXCEPT !.table_names = <<>>, !.table_updates = EmptyMap]

\* LedgerDomain::get_table_updates<K, V>(table_name)
get_table_updates(domain, table_name) ==
  IF table_name \notin DOMAIN domain.table_updates THEN <<>>
  ELSE MapOf(domain.table_updates[table_name])

\* index of the frame of L that starts at byte offset off, 0 when none does
FrameIndexAt(led, off) ==
  LET I == {i \in 1..Len(led.fields) : led.fields[i].start = off}
  IN  IF I = {} THEN 0 ELSE CHOOSE i \in I : TRUE

\* Ledger::Ledger(path, tables, offset): the buffer holds the file from
\* byte `offset` on; `fields` are the size fields the bytes of the file
\* hold, with the offset in the file of each frame
Ledger(L, tables, offset) ==
  [file |-> L, tables |-> tables, offset |-> offset,
   size |-> FileSize(L) - offset,
   fields |-> [i \in 1..Len(L) |->
                 [start |-> FrameStart(L, i), txn_size |-> FrameSize(L[i]),
                  domain_size |-> PublicSize(L[i])]]]

\* Ledger::iterator::read_header
read_header(led, it) ==
  LET f == led.fields[FrameIndexAt(led, led.offset + it.iter_offset)]
      txn_offset == it.iter_offset + TXN_SIZE_FIELD
  IN  [it EXCEPT !.txn_size = f.txn_size,
                 !.txn_offset = txn_offset,
                 !.iter_offset = it.iter_offset + (f.txn_size + TXN_SIZE_FIELD),
                 !.domain_size = f.domain_size,
                 !.domain_offset = txn_offset + GCM_SIZE_FIELD + DOMAIN_SIZE_FIELD]

\* Ledger::iterator::iterator(buffer, size, tables, seek_end)
Iterator(led, seek_end) ==
  LET it == [iter_offset |-> IF seek_end THEN led.size ELSE 0,
             txn_size |-> 0, txn_offset |-> 0,
             domain_size |-> 0, domain_offset |-> 0,
             domain_ptr |-> "null"]
  IN  IF it.iter_offset < led.size THEN read_header(led, it) ELSE it

begin(led) == Iterator(led, FALSE)
end(led) == Iterator(led, TRUE)

\* a variant of operator++ that resets the fields before its test of the end
Increment_reset(led, it) ==
  LET r == [it EXCEPT !.domain_ptr = "null", !.txn_size = 0, !.txn_offset = 0,
                      !.domain_size = 0, !.domain_offset = 0]
  IN  IF it.iter_offset >= led.size THEN r ELSE read_header(led, r)

\* a variant of operator++ that advances by two frames
Increment_twice(led, it) ==
  LET r == [it EXCEPT !.domain_ptr = "null", !.txn_size = 0, !.txn_offset = 0,
                      !.domain_size = 0, !.domain_offset = 0]
      n == read_header(led, r)
  IN  IF it.iter_offset >= led.size THEN it
      ELSE IF n.iter_offset >= led.size THEN n
      ELSE read_header(led, n)

\* Ledger::iterator::operator++
Increment(led, it) ==
  IF it.iter_offset >= led.size THEN it
  ELSE read_header(led,
         [it EXCEPT !.domain_ptr = "null", !.txn_size = 0, !.txn_offset = 0,
                    !.domain_size = 0, !.domain_offset = 0])

\* the frame whose header the iterator read last, 0 when it read none
CurrentFrame(led, it) ==
  IF it.txn_offset = 0 THEN 0
  ELSE FrameIndexAt(led, led.offset + it.txn_offset - TXN_SIZE_FIELD)

\* Ledger::iterator::operator*: the domain it refers to
Deref(led, it) ==
  LET d == LedgerDomain(led.file[CurrentFrame(led, it)], led.tables)
  IN  IF it.domain_ptr = "moved" THEN MovedFrom(d) ELSE d

\* Ledger::iterator::get_raw_data of ledger_util.h: (buffer + txn_offset,
\* txn_size), as the offset in the file and the length
get_raw_data(led, it) ==
  [start |-> led.offset + it.txn_offset, size |-> it.txn_size]

\* Ledger::iterator::get_raw_data of ledgerutil.h: (data_buffer, data_size),
\* the buffer read_header filled from the length prefix on, of
\* txn_size + TRANSACTION_SIZE bytes
tpcc_get_raw_data(led, it) ==
  [start |-> led.offset + it.txn_offset - TXN_SIZE_FIELD,
   size |-> it.txn_size + TXN_SIZE_FIELD]

\* crypto::Sha256Hash of the bytes get_raw_data hands out: the bytes of the
\* current frame, with its length prefix when the range starts at the
\* frame's first byte
RawDataHash(led, it) ==
  [bytes |-> led.file[CurrentFrame(led, it)],
   prefix |-> get_raw_data(led, it).start =
                led.fields[CurrentFrame(led, it)].start]

\* whether operator* can build a domain: an iterator that read no header
\* unpacks a payload of no bytes, which throws
CanDeref(led, it) == CurrentFrame(led, it) # 0

(***************************************************************************)
(* MerkleTreeHistory (node/history.h)                                       *)
(***************************************************************************)
\* leaves retained, and the index of the first of them
NewMerkle == [first |-> 1, leaves |-> <<>>]

MerkleAppend(m, leaf) == [m EXCEPT !.leaves = Append(@, leaf)]

\* flush(k): leaves with index <= k are dropped
MerkleFlush(m, k) ==
  IF k < m.first THEN m
  ELSE LET n == IF k - m.first + 1 > Len(m.leaves) THEN Len(m.leaves)
                ELSE k - m.first + 1
       IN  [first |-> m.first + n,
            leaves |-> SubSeq(m.leaves, n + 1, Len(m.leaves))]

\* the root, as an ideal hash of the retained window
MerkleRoot(m) == m.leaves

(***************************************************************************)
(* LedgerReader (app/ledger_reader.h)                                       *)
(***************************************************************************)
\* the node table
Nodes == {1}

\* a variant of the resuming constructor that opens the ledger at offset 0
LedgerReader_zero(L, tables, offset, at_offset) ==
  LET led == Ledger(L, tables, 0) IN
  [ledger |-> led, iter |-> begin(led), merkle_history |-> NewMerkle,
   reading_at_offset |-> at_offset]

\* LedgerReader::LedgerReader(path, tables, nodes_view [, offset, merkle_file])
LedgerReader(L, tables, offset, at_offset) ==
  LET led == Ledger(L, tables, offset) IN
  [ledger |-> led, iter |-> begin(led), merkle_history |-> NewMerkle,
   reading_at_offset |-> at_offset]

\* LedgerReader::has_next
has_next(r) == r.iter.iter_offset < end(r.ledger).iter_offset

\* a variant of verify_batch that never flushes the history
VerifyFlush_none(m, version, reading_at_offset) == m

\* the Merkle history after the flush at the head of verify_batch
VerifyFlush(m, version, reading_at_offset) ==
  IF version >= MAX_HISTORY_LEN /\ ~reading_at_offset
  THEN MerkleFlush(m, version - MAX_HISTORY_LEN)
  ELSE m

\* the leaf read_batch appends for frame f
LeafOf(f) == [bytes |-> f, prefix |-> FALSE]

\* the Merkle history of a reader that replayed frames 1..n of L from offset 0
RECURSIVE FromZeroMerkle(_, _)
FromZeroMerkle(L, n) ==
  IF n = 0 THEN NewMerkle
  ELSE LET m == FromZeroMerkle(L, n - 1)
           f == L[n]
       IN  MerkleAppend(IF HasSection(f, "ccf.signatures")
                        THEN VerifyFlush(m, f.ver, FALSE) ELSE m,
                        LeafOf(f))

\* the root such a reader verifies at frame v, which is what the node signed
FromZeroRoot(L, v) ==
  MerkleRoot(VerifyFlush(FromZeroMerkle(L, v - 1), v, FALSE))

\* The outcomes of LedgerReader::verify_batch after its flush left history
\* m: the signature is the first entry of get_table_updates("ccf.signatures");
\* when the domain stored no such table the map is empty and begin() is
\* dereferenced all the same, which is undefined: the garbage signature may
\* verify, fail to verify, name no node of the node table (throw), or the
\* copy of it may fault (crash).
VerifyOutcomes(L, m, domain) ==
  LET us == get_table_updates(domain, "ccf.signatures") IN
    IF us = <<>> THEN {"true", "false", "throw", "crash"}
    ELSE LET sig == us[1][2] IN
         IF sig.node \notin Nodes THEN {"throw"}
         ELSE IF MerkleRoot(m) = FromZeroRoot(L, sig.upto + 1)
              THEN {"true"} ELSE {"false"}

\* read_batch, lines 117-118: the value `verified` holds after them when
\* verify_batch returned `out`
VerifiedAfter(out) == TRUE

(***************************************************************************)
(* HistoryQuery (app/history_query.h)                                       *)
(***************************************************************************)
\* the loop of process_domain over the sorted updates
RECURSIVE ProcessUpdates(_, _, _, _)
ProcessUpdates(us, results, from, to) ==
  IF us = <<>> THEN [results |-> results, exceeded |-> FALSE]
  ELSE LET val == Head(us)[2] IN
       IF val.date >= from
       THEN IF val.date <= to
            THEN ProcessUpdates(Tail(us), Append(results, val.c_id), from, to)
            ELSE [results |-> results, exceeded |-> TRUE]
       ELSE ProcessUpdates(Tail(us), results, from, to)

\* HistoryQuery::process_domain
process_domain(domain, results, from, to) ==
  IF "histories" \notin Range(domain.table_names)
  THEN [results |-> results, exceeded |-> FALSE]
  ELSE ProcessUpdates(get_table_updates(domain, "histories"), results, from, to)

\* the loop over the domains of a batch in the verified strategies
RECURSIVE ProcessBatch(_, _, _, _)
ProcessBatch(batch, results, from, to) ==
  IF batch = <<>> THEN [results |-> results, exceeded |-> FALSE]
  ELSE LET p == process_domain(Head(batch), results, from, to) IN
       IF p.exceeded THEN p
       ELSE ProcessBatch(Tail(batch), p.results, from, to)

\* a variant of query_kv whose upper bound is exclusive
RECURSIVE query_kv_exclusive(_, _, _, _)
query_kv_exclusive(L, order, from, to) ==
  IF order = <<>> THEN <<>>
  ELSE LET val == LiveValue(L, "histories", Head(order)) IN
       (IF val.date < to /\ val.date >= from THEN <<val.c_id>> ELSE <<>>)
       \o query_kv_exclusive(L, Tail(order), from, to)

\* HistoryQuery::query_kv over the live table visited in `order`
RECURSIVE query_kv(_, _, _, _)
query_kv(L, order, from, to) ==
  IF order = <<>> THEN <<>>
  ELSE LET val == LiveValue(L, "histories", Head(order)) IN
       (IF val.date <= to /\ val.date >= from THEN <<val.c_id>> ELSE <<>>)
       \o query_kv(L, Tail(order), from, to)

(***************************************************************************)
(* Initial state and the producer                                           *)
(***************************************************************************)
NewQuery == [pc |-> "idle", strategy |-> "none", results |-> <<>>,
             err |-> "none", tick |-> FALSE, prev |-> <<>>, prev_by |-> "none",
             opened |-> {}, outside |-> FALSE]

NewBatch == [batch |-> <<>>, verified |-> TRUE, batch_complete |-> FALSE,
             vres |-> "none", root |-> <<>>, root_at |-> 0]

Init ==
  /\ ledger = <<>>
  /\ updates = EmptyMap
  /\ ledger_offset = 0
  /\ snap_file = <<>>
  /\ snap_rec = NoSnapshot
  /\ snap_by = "none"
  /\ rd = NewReader
  /\ disk = EmptyMap
  /\ snapshots = <<>>
  /\ ins = NoInsert
  /\ snap = NewAppSnapshot
  /\ date_from = NullTime
  /\ date_to = NullTime
  /\ q = NewQuery
  /\ reader = LedgerReader(<<>>, <<>>, 0, FALSE)
  /\ rb = NewBatch

\* a transaction commits: the frame is appended to the ledger and handed to
\* SnapshotWriter::append_transaction
Commit(fk, max) ==
  /\ q.pc = "idle"
  /\ Len(ledger) < max
  /\ LET f == MakeFrame(fk, Len(ledger) + 1) IN
       /\ ledger' = Append(ledger, f)
       /\ updates' = append_transaction(updates, f)
       /\ ledger_offset' = ledger_offset + (ParsedLength(f) + SIZE_FIELD)
  /\ UNCHANGED <<snap_file, snap_rec, snap_by, rd, disk, snapshots, ins, qvars, snap>>

W_AppendTransaction(fk) == Commit(fk, MaxFrames)

\* SnapshotWriter::create(version, merkle_file); the tables of the
\* unordered_map are visited in some order
Create(order) ==
  /\ q.pc = "idle"
  /\ order \in Orders(DOMAIN updates)
  /\ LET file == CreateFile(updates, order) IN
       /\ snap_file' = file
       /\ disk' = [v \in {snapshots[i].version : i \in 1..Len(snapshots)}
                            \cup (IF ins.active THEN {ins.rec.version} ELSE {})
                            \cup {Len(ledger)} |->
                     IF v = Len(ledger) THEN file ELSE disk[v]]
       /\ snap_rec' = Snapshot(Len(ledger), ledger_offset,
                        HashBytes(HashedTokens(file)),
                        CreateIndexValue(updates), Len(ledger))
  /\ snap_by' = "kv"
  /\ rd' = NewReader
  /\ UNCHANGED <<ledger, updates, ledger_offset, qvars, snap>>

W_Create(order) == Create(order) /\ UNCHANGED <<snapshots, ins>>

\* an ordering of the records by their version
SnapshotLess_version(lhs, rhs) == lhs.version < rhs.version

\* std::less<kv::Snapshot> (and Snapshot::operator<): the order of the index
SnapshotLess(lhs, rhs) == lhs.index_value < rhs.index_value

\* the places multi_skip_list::insert may put s at: after every record that
\* is less than s and before every record that s is less than
InsertPositions(snaps, s) ==
  {p \in 1..(Len(snaps) + 1) :
     /\ \A i \in 1..(p - 1) : ~SnapshotLess(s, snaps[i])
     /\ \A i \in p..Len(snaps) : ~SnapshotLess(snaps[i], s)}

InsertAt(snaps, s, p) ==
  SubSeq(snaps, 1, p - 1) \o <<s>> \o SubSeq(snaps, p, Len(snaps))

\* a variant of append that registers every snapshot
ManagerAppend_all(snaps, s, p) == InsertAt(snaps, s, p)

\* SnapshotManager::append
ManagerAppend(snaps, s, p) ==
  IF s.index_value = NullTime THEN snaps ELSE InsertAt(snaps, s, p)

\* a snapshot is taken: create(), and the record goes to the SnapshotManager
S_Snapshot(order, p) ==
  /\ Len(snapshots) < MaxSnapshots
  /\ Create(order)
  /\ p \in InsertPositions(snapshots, snap_rec')
  /\ snapshots' = ManagerAppend(snapshots, snap_rec', p)
  /\ UNCHANGED ins

\* the TPCC_kv_snapshot handler's use of the application Snapshot:
\* serialize_table of the live table in foreach order, finalize, hash
A_Snapshot(order) ==
  /\ order \in Orders(LiveKeys(ledger, "histories"))
  /\ LET pairs == [i \in 1..Len(order) |->
                     <<order[i], LiveValue(ledger, "histories", order[i])>>]
         file == AppSerializeTable("histories", pairs)
     IN  /\ snap_file' = file
         /\ snap_rec' = Snapshot(Len(ledger), 0, HashBytes(HashedTokens(file)),
                          NullTime, 0)
  /\ snap_by' = "app"
  /\ rd' = NewReader
  /\ UNCHANGED <<ledger, updates, ledger_offset, disk, snapshots, ins, qvars, snap>>

\* a SnapshotReader is constructed on the file and read() is called; the
\* snapshots table holds signed_hash for the file's version
R_Read(signed_hash) ==
  /\ snap_by # "none"
  /\ rd.status = "new"
  /\ signed_hash \in TrustedHashes(snap_rec.hash)
  /\ rd' = Read(snap_file, signed_hash)
  /\ UNCHANGED <<ledger, updates, ledger_offset, snap_file, snap_rec, snap_by,
                 disk, snapshots, ins, qvars, snap>>

\* read() is called once more on a reader that has read its file
R_ReadAgain ==
  /\ rd.is_read
  /\ rd.calls < MaxReads
  /\ rd' = ReadAgain(rd)
  /\ UNCHANGED <<ledger, updates, ledger_offset, snap_file, snap_rec, snap_by,
                 disk, snapshots, ins, qvars, snap>>

(***************************************************************************)
(* Specification SpecW: producer, snapshot writers, snapshot reader         *)
(***************************************************************************)
NextW ==
  \/ \E fk \in FrameKinds : W_AppendTransaction(fk)
  \/ \E order \in Orders(DOMAIN updates) : W_Create(order)
  \/ \E order \in Orders(LiveKeys(ledger, "histories")) : A_Snapshot(order)
  \/ \E h \in TrustedHashes(snap_rec.hash) : R_Read(h)
  \/ R_ReadAgain

SpecW == Init /\ [][NextW]_vars

NextWriter ==
  \/ \E fk \in FrameKinds : W_AppendTransaction(fk)
  \/ \E order \in Orders(DOMAIN updates) : W_Create(order)

\* the producer and the SnapshotWriter alone
SpecWriter == Init /\ [][NextWriter]_vars

\* the producer, and snapshots registered with the SnapshotManager
I_AppendTransaction(fk) == Commit(fk, MaxIndexFrames)

NextIndex ==
  \/ \E fk \in FrameKinds : I_AppendTransaction(fk)
  \/ \E order \in Orders(DOMAIN updates) :
       \E p \in 1..(Len(snapshots) + 1) : S_Snapshot(order, p)

SpecIndex == Init /\ [][NextIndex]_vars

(***************************************************************************)
(* The query strategies, one step per loop iteration                        *)
(***************************************************************************)
Ranges == {<<f, t>> \in Dates \X Dates : f <= t}

\* the query ends by an exception: "decode" (unpack of a payload), "read"
\* (read of the ledger file), "bad_alloc" (a vector cannot grow), "node"
\* (verify_batch found no node), "null_batch" (read_batch returned null),
\* "snapshot" (the snapshot did not read)
Raise(qq, kind) == [qq EXCEPT !.pc = "error", !.err = kind]

StartQuery(strategy, pc) ==
  [q EXCEPT !.pc = pc, !.strategy = strategy, !.results = <<>>,
            !.err = "none", !.tick = FALSE, !.prev = q.results,
            !.prev_by = q.strategy, !.opened = {}, !.outside = FALSE]

\* HistoryQuery(from, to).query_ledger(results), up to its loop
QL_Start(from, to) ==
  /\ q.pc = "idle"
  /\ date_from' = from /\ date_to' = to
  /\ reader' = LedgerReader(ledger, <<"histories">>, 0, FALSE)
  /\ q' = StartQuery("ledger", "ql_loop")
  /\ UNCHANGED <<ledger, wvars, rb>>

\* one evaluation of the loop of a scan by direct iteration: the condition
\* iter <= end(), the body, ++iter
ScanStep(DomainOf(_)) ==
  LET led == reader.ledger
      it == reader.iter
  IN  IF ~(it.iter_offset <= end(led).iter_offset)
      THEN q' = [q EXCEPT !.pc = "done"] /\ UNCHANGED reader
      ELSE IF ~CanDeref(led, it)
      THEN q' = Raise(q, "decode") /\ UNCHANGED reader
      ELSE \E p \in {process_domain(DomainOf(led.file[CurrentFrame(led, it)]),
                                      q.results, date_from, date_to)} :
               IF Len(p.results) > MaxResults
               THEN \* the results vector cannot grow: bad_alloc
                    q' = Raise(q, "bad_alloc") /\ UNCHANGED reader
               ELSE IF p.exceeded
               THEN /\ q' = [q EXCEPT !.pc = "done", !.results = p.results]
                    /\ reader' = [reader EXCEPT !.iter.domain_ptr = "live"]
               ELSE /\ q' = [q EXCEPT !.results = p.results, !.tick = ~@]
                    /\ reader' = [reader EXCEPT !.iter =
                         Increment(led, [it EXCEPT !.domain_ptr = "live"])]

\* the loop of HistoryQuery::query_ledger
QL_Step ==
  /\ q.pc = "ql_loop"
  /\ ScanStep(LAMBDA f : LedgerDomain(f, reader.ledger.tables))
  /\ UNCHANGED <<ledger, wvars, date_from, date_to, rb>>

\* LedgerDomain::LedgerDomain(buffer, length) of ledgerutil.h: every table
\* is named and stored
LedgerDomainAll(f) ==
  LedgerDomain(f, [i \in 1..Len(f.secs) |-> f.secs[i].name])

\* TpccHandlers::query_history_ledger, up to its loop: begin() reads the
\* first header, which throws on a file of no bytes
TQ_Start(from, to) ==
  /\ q.pc = "idle"
  /\ date_from' = from /\ date_to' = to
  /\ reader' = LedgerReader(ledger, <<>>, 0, FALSE)
  /\ q' = IF ledger = <<>> THEN Raise(StartQuery("tpcc", "error"), "read")
          ELSE StartQuery("tpcc", "tq_loop")
  /\ UNCHANGED <<ledger, wvars, rb>>

\* the loop of TpccHandlers::query_history_ledger
TQ_Step ==
  /\ q.pc = "tq_loop"
  /\ ScanStep(LedgerDomainAll)
  /\ UNCHANGED <<ledger, wvars, date_from, date_to, rb>>

\* HistoryQuery(from, to).query_ledger_verified(nodes_view, results), up to
\* its loop
QV_Start(from, to) ==
  /\ q.pc = "idle"
  /\ date_from' = from /\ date_to' = to
  /\ reader' = LedgerReader(ledger, <<"histories">>, 0, FALSE)
  /\ q' = StartQuery("verified", "has_next")
  /\ rb' = NewBatch
  /\ UNCHANGED <<ledger, wvars>>

\* while (reader.has_next()), and the entry of read_batch
Q_HasNext ==
  /\ q.pc = "has_next"
  /\ IF has_next(reader)
     THEN q' = [q EXCEPT !.pc = "read_batch"] /\ rb' = NewBatch
     ELSE q' = [q EXCEPT !.pc = "done"] /\ UNCHANGED rb
  /\ UNCHANGED <<ledger, wvars, date_from, date_to, reader>>

\* one evaluation of the loop of LedgerReader::read_batch, or its return
RB_Step ==
  /\ q.pc = "read_batch"
  /\ LET led == reader.ledger
         it == reader.iter
     IN
     IF ~(it.iter_offset <= end(led).iter_offset /\ ~rb.batch_complete)
     THEN \* return verified ? batch : nullptr, and the caller's null check
          /\ q' = IF rb.verified THEN [q EXCEPT !.pc = "process"]
                  ELSE Raise(q, "null_batch")
          /\ UNCHANGED <<reader, rb>>
     ELSE IF ~CanDeref(led, it)
     THEN q' = Raise(q, "decode") /\ UNCHANGED <<reader, rb>>
     ELSE IF Len(rb.batch) >= MaxLoop
     THEN \* the batch cannot grow: bad_alloc
          q' = Raise(q, "bad_alloc") /\ UNCHANGED <<reader, rb>>
     ELSE
       LET domain == Deref(led, it)
           sig == is_signature_txn(domain)
           m1 == IF sig THEN VerifyFlush(reader.merkle_history, domain.version,
                                         reader.reading_at_offset)
                 ELSE reader.merkle_history
           moved == [it EXCEPT !.domain_ptr = "moved"]
       IN  \E out \in (IF sig THEN VerifyOutcomes(led.file, m1, domain)
                       ELSE {"none"}) :
             IF out \in {"throw", "crash"}
             THEN /\ q' = IF out = "throw" THEN Raise(q, "node")
                          ELSE [q EXCEPT !.pc = "crashed"]
                  /\ reader' = [reader EXCEPT !.merkle_history = m1,
                                              !.iter.domain_ptr = "live"]
                  /\ rb' = [rb EXCEPT !.root = MerkleRoot(m1),
                                      !.root_at = domain.version]
             ELSE /\ rb' = [batch |-> Append(rb.batch, domain),
                            verified |-> IF sig THEN VerifiedAfter(out)
                                         ELSE rb.verified,
                            batch_complete |-> sig,
                            vres |-> IF sig THEN out ELSE rb.vres,
                            root |-> IF sig THEN MerkleRoot(m1) ELSE rb.root,
                            root_at |-> IF sig THEN domain.version
                                        ELSE rb.root_at]
                  /\ reader' = [reader EXCEPT
                       !.merkle_history = MerkleAppend(m1, RawDataHash(led, it)),
                       !.iter = Increment(led, moved)]
                  /\ UNCHANGED q
  /\ UNCHANGED <<ledger, wvars, date_from, date_to>>

\* for (auto& domain : *batch) if (process_domain(domain, results)) return;
Q_Process ==
  /\ q.pc = "process"
  /\ LET p == ProcessBatch(rb.batch, q.results, date_from, date_to) IN
       IF Len(p.results) > MaxResults
       THEN q' = Raise(q, "bad_alloc")
       ELSE q' = [q EXCEPT !.results = p.results,
                           !.pc = IF p.exceeded THEN "done" ELSE "has_next"]
  /\ UNCHANGED <<ledger, wvars, date_from, date_to, reader, rb>>

\* HistoryQuery(from, to).query_kv(results, history_view), and
\* TpccHandlers::query_history_kv: foreach visits the live table in some
\* order
K_Query(from, to, order) ==
  /\ q.pc = "idle"
  /\ order \in Orders(LiveKeys(ledger, "histories"))
  /\ date_from' = from /\ date_to' = to
  /\ q' = [StartQuery("kv", "done") EXCEPT
             !.results = query_kv(ledger, order, from, to)]
  /\ UNCHANGED <<ledger, wvars, reader, rb>>

\* the table blocks of a file written by SnapshotSerializer
KvBlocks(toks) ==
  [i \in 1..(Len(toks) \div 3) |->
     [name |-> toks[3 * i - 2].s, data_size |-> toks[3 * i - 1].n,
      data |-> toks[3 * i].kv]]

(***************************************************************************)
(* HistoryQuery::query_snapshots                                            *)
(***************************************************************************)
\* multi_skip_list::lower_bound: the first position whose snapshot is not
\* less than the comparator, Len + 1 for end()
lower_bound(snaps, index_value) ==
  LET comparator == [NoSnapshot EXCEPT !.index_value = index_value]
      I == {i \in 1..Len(snaps) : ~SnapshotLess(snaps[i], comparator)}
  IN  IF I = {} THEN Len(snaps) + 1 ELSE CHOOSE i \in I : \A j \in I : i <= j

\* a variant of the early return that requires every snapshot to lie
\* strictly after `to`
RangePrecedes_strict(snaps, from, to) ==
  /\ lower_bound(snaps, from) = 1
  /\ \A i \in 1..Len(snaps) : snaps[i].index_value > to

\* a variant of the early return that is not taken on an empty index
RangePrecedes_nonempty(snaps, from, to) ==
  /\ snaps # <<>>
  /\ lower_bound(snaps, from) = 1
  /\ lower_bound(snaps, to) = 1

\* lines 159-171: lower_bound(from) is begin() and lower_bound(to) is begin()
RangePrecedes(snaps, from, to) ==
  /\ lower_bound(snaps, from) = 1
  /\ lower_bound(snaps, to) = 1

\* SnapshotReader(start).read(): the reader HistoryQuery builds from a
\* kv::Snapshot parses the blocks of the Snapshot's file and compares the
\* digest with the Snapshot's hash
ReadSnapshot(file, start) ==
  LET bs == KvBlocks(file)
      digest == HashBytes(HashedTokens(file))
  IN  [ok |-> digest = start.hash,
       table_names |-> [i \in 1..Len(bs) |-> bs[i].name],
       table_buffers |-> [i \in 1..Len(bs) |-> <<bs[i].name, bs[i].data>>]]

\* the loop over the snapshot's histories table, lines 189-196
RECURSIVE SnapshotResults(_, _, _, _)
SnapshotResults(table, results, from, to) ==
  IF table = <<>> THEN results
  ELSE LET history == Head(table)[2] IN
       SnapshotResults(Tail(table),
         IF history.date >= from /\ history.date <= to
         THEN Append(results, Head(table)[1]) ELSE results,
         from, to)

\* HistoryQuery(from, to).query_snapshots(snapshot_manager, nodes_view,
\* results), up to the loop of its replay
QS_Start(from, to) ==
  /\ \/ q.pc = "idle"
     \/ q.pc = "done" /\ q.strategy = "verified"
          /\ from = date_from /\ to = date_to
  /\ date_from' = from /\ date_to' = to
  /\ LET it0 == lower_bound(snapshots, from)
         it == IF it0 = Len(snapshots) + 1 THEN it0 - 1 ELSE it0
     IN  IF RangePrecedes(snapshots, from, to)
         THEN q' = StartQuery("snapshots", "done") /\ UNCHANGED reader
         ELSE IF it \notin 1..Len(snapshots)
         THEN \* *snapshots_iter at a position that holds no element: undefined
              /\ q' = [StartQuery("snapshots", "crashed") EXCEPT
                         !.err = "end_position"]
              /\ UNCHANGED reader
         ELSE
           LET start == snapshots[it]
               sr == ReadSnapshot(disk[start.version], start)
               table == IF HasBuffer(sr.table_buffers, "histories")
                        THEN MapOf(BufferOf(sr.table_buffers, "histories"))
                        ELSE <<>>
           IN  IF ~sr.ok
               THEN /\ q' = [Raise(StartQuery("snapshots", "error"), "snapshot")
                               EXCEPT !.opened = {start.version}]
                    /\ UNCHANGED reader
               ELSE /\ q' = [StartQuery("snapshots", "has_next") EXCEPT
                               !.results = SnapshotResults(table, <<>>, from, to),
                               !.opened = {start.version}]
                    /\ reader' = LedgerReader(ledger, <<"histories">>,
                                              start.ledger_offset, TRUE)
  /\ rb' = NewBatch
  /\ UNCHANGED <<ledger, wvars>>

(***************************************************************************)
(* Specification SpecQ: the producer, then a verified replay of the ledger  *)
(***************************************************************************)
Q_AppendTransaction(fk) == Commit(fk, MaxReplayFrames)

NextQ ==
  \/ \E fk \in FrameKinds : Q_AppendTransaction(fk)
  \/ \E r \in Ranges : QV_Start(r[1], r[2])
  \/ Q_HasNext
  \/ RB_Step
  \/ Q_Process

SpecQ == Init /\ [][NextQ]_vars

\* the verified replay of a ledger that holds signatures of a node the node
\* table does not hold
N_AppendTransaction(fk) == Commit(fk, MaxReplayFrames)

NextNode ==
  \/ \E fk \in NodeFrameKinds : N_AppendTransaction(fk)
  \/ \E r \in Ranges : QV_Start(r[1], r[2])
  \/ Q_HasNext
  \/ RB_Step
  \/ Q_Process

SpecNode == Init /\ [][NextNode]_vars

(***************************************************************************)
(* Specification SpecScan: the producer, then a scan by direct iteration;   *)
(* a handler that entered its loop keeps running                            *)
(***************************************************************************)
NextScan ==
  \/ \E fk \in FrameKinds : W_AppendTransaction(fk)
  \/ \E r \in Ranges : QL_Start(r[1], r[2])
  \/ QL_Step
  \/ \E r \in Ranges : TQ_Start(r[1], r[2])
  \/ TQ_Step

SpecScan == Init /\ [][NextScan]_vars /\ WF_vars(QL_Step) /\ WF_vars(TQ_Step)

\* the producer, then HistoryQuery::query_ledger alone
NextCursor ==
  \/ \E fk \in FrameKinds : W_AppendTransaction(fk)
  \/ \E r \in Ranges : QL_Start(r[1], r[2])
  \/ QL_Step

SpecCursor == Init /\ [][NextCursor]_vars

\* the producer, then a query over the live table
NextKv ==
  \/ \E fk \in FrameKinds : I_AppendTransaction(fk)
  \/ \E r \in Ranges : \E order \in Orders(LiveKeys(ledger, "histories")) :
       K_Query(r[1], r[2], order)

SpecKv == Init /\ [][NextKv]_vars

(***************************************************************************)
(* Specification SpecPriv: the SnapshotWriter absorbs frames that carry a   *)
(* private payload                                                          *)
(***************************************************************************)
\* SnapshotWriter::append_transaction(data, length) on a frame with a
\* private payload of priv bytes. The caller hands over either the whole
\* frame after its length prefix or the frame up to the end of the public
\* payload. In the first case the loop `while (offset != length)` goes on
\* into the private bytes after it has appended the public updates; a
\* table section takes six objects at least, so on fewer than six bytes
\* unpack throws before ledger_offset is advanced. In the second case the
\* loop ends at the end of the public payload.
P_AppendTransaction(fk, priv, slice) ==
  /\ q.pc = "idle"
  /\ Len(ledger) < MaxIndexFrames
  /\ LET f == [MakeFrame(fk, Len(ledger) + 1) EXCEPT !.priv = priv] IN
       /\ ledger' = Append(ledger, f)
       /\ updates' = append_transaction(updates, f)
       /\ ledger_offset' =
            IF slice = "frame" /\ priv > 0 THEN ledger_offset
            ELSE ledger_offset + (ParsedLength(f) + SIZE_FIELD)
  /\ UNCHANGED <<snap_file, snap_rec, snap_by, rd, disk, snapshots, ins, qvars, snap>>

NextPriv ==
  \/ \E fk \in FrameKinds : \E priv \in 0..MaxPriv :
       \E slice \in {"frame", "public"} : P_AppendTransaction(fk, priv, slice)
  \/ \E order \in Orders(DOMAIN updates) : W_Create(order)

SpecPriv == Init /\ [][NextPriv]_vars

(***************************************************************************)
(* Specification SpecDecode: the public payload as a sequence of MessagePack *)
(* objects, and LedgerDomain's constructor as a walk over it                 *)
(***************************************************************************)
\* a MessagePack object of the payload: t is "uint", "str", "map" or "val"
Obj(t, v) == [t |-> t, v |-> v]

\* the objects of one table section: map start indicator, name, read
\* version, read count, write count, (key, value)*, remove count, key*
SectionObjects(sec) ==
  <<Obj("map", 0), Obj("str", sec.name), Obj("uint", 0), Obj("uint", 0),
    Obj("uint", Len(sec.writes))>>
  \o Flatten([i \in 1..Len(sec.writes) |->
                <<Obj("uint", sec.writes[i][1]), Obj("val", sec.writes[i][2])>>])
  \o <<Obj("uint", Len(sec.removes))>>
  \o [i \in 1..Len(sec.removes) |-> Obj("uint", sec.removes[i])]

\* the objects of the public payload of frame f: the version, the sections
PayloadObjects(f) ==
  <<Obj("uint", f.ver)>>
  \o Flatten([i \in 1..Len(f.secs) |-> SectionObjects(f.secs[i])])

\* the outcome of the counts and loops of one section, from its write count
\* at `offset` on: ok is FALSE when an unpack or a convert throws
SectionWalk(ok, offset, us) ==
  [ok |-> ok, offset |-> offset, updates |-> us]

\* LedgerDomain::LedgerDomain, lines 80-101: the branch that stores
PersistSection(objs, offset) ==
  IF offset > Len(objs) \/ objs[offset].t # "uint"
  THEN SectionWalk(FALSE, offset, <<>>)
  ELSE LET write_count == objs[offset].v
           rpos == offset + 1 + 2 * write_count
       IN  IF rpos > Len(objs) \/ objs[rpos].t # "uint"
           THEN SectionWalk(FALSE, offset, <<>>)
           ELSE IF rpos + objs[rpos].v > Len(objs)
           THEN SectionWalk(FALSE, offset, <<>>)
           ELSE SectionWalk(TRUE, rpos + 1 + objs[rpos].v,
                  [i \in 1..write_count |->
                     <<objs[offset + 2 * i - 1].v, objs[offset + 2 * i].v>>])

\* a variant of the discarding branch that leaves the removed keys unread
DiscardSection_keys(objs, offset) ==
  IF offset > Len(objs) \/ objs[offset].t # "uint"
  THEN SectionWalk(FALSE, offset, <<>>)
  ELSE LET write_count == objs[offset].v
           rpos == offset + 1 + 2 * write_count
       IN  IF rpos > Len(objs) \/ objs[rpos].t # "uint"
           THEN SectionWalk(FALSE, offset, <<>>)
           ELSE SectionWalk(TRUE, rpos + 1, <<>>)

\* LedgerDomain::LedgerDomain, lines 103-117: the branch that discards
DiscardSection(objs, offset) ==
  IF offset > Len(objs) \/ objs[offset].t # "uint"
  THEN SectionWalk(FALSE, offset, <<>>)
  ELSE LET write_count == objs[offset].v
           rpos == offset + 1 + 2 * write_count
       IN  IF rpos > Len(objs) \/ objs[rpos].t # "uint"
           THEN SectionWalk(FALSE, offset, <<>>)
           ELSE IF rpos + objs[rpos].v > Len(objs)
           THEN SectionWalk(FALSE, offset, <<>>)
           ELSE SectionWalk(TRUE, rpos + 1 + objs[rpos].v, <<>>)

\* LedgerDomain::LedgerDomain, the loop while (offset != length), lines
\* 68-121; map::insert keeps the first section of a name
RECURSIVE ReadTables(_, _, _, _)
ReadTables(objs, offset, table_names, table_updates) ==
  IF offset = Len(objs) + 1 THEN [ok |-> TRUE, table_updates |-> table_updates]
  ELSE IF offset + 1 > Len(objs) \/ objs[offset + 1].t # "str"
  THEN [ok |-> FALSE, table_updates |-> table_updates]
  ELSE LET map_name_str == objs[offset + 1].v
           persist_data == map_name_str \in Range(table_names)
           w == IF persist_data THEN PersistSection(objs, offset + 4)
                ELSE DiscardSection(objs, offset + 4)
       IN  IF ~w.ok THEN [ok |-> FALSE, table_updates |-> table_updates]
           ELSE ReadTables(objs, w.offset, table_names,
                  IF persist_data /\ map_name_str \notin DOMAIN table_updates
                  THEN [n \in DOMAIN table_updates \cup {map_name_str} |->
                          IF n = map_name_str THEN w.updates
                          ELSE table_updates[n]]
                  ELSE table_updates)

\* LedgerDomain::LedgerDomain(buffer, length, table_names) on the objects
\* of a payload
DecodeDomain(objs, table_names) ==
  LET r == ReadTables(objs, 2, table_names, EmptyMap) IN
    [ok |-> objs[1].t = "uint" /\ r.ok, version |-> objs[1].v,
     table_names |-> table_names, table_updates |-> r.table_updates]

\* the tables a payload may hold
AllTables == <<"ccf.signatures", "histories", "orders">>

\* the first transaction commits, one that updates two tables
D_Commit(fk1, fk2) ==
  /\ q.pc = "idle"
  /\ q.strategy = "none"
  /\ ledger = <<>>
  /\ LET v == Len(ledger) + 1
         f == Frame(v, MakeFrame(fk1, v).secs \o MakeFrame(fk2, v).secs, 0)
     IN  /\ ledger' = Append(ledger, f)
         /\ updates' = append_transaction(updates, f)
         /\ ledger_offset' = ledger_offset + (ParsedLength(f) + SIZE_FIELD)
  /\ UNCHANGED <<snap_file, snap_rec, snap_by, rd, disk, snapshots, ins, qvars, snap>>

\* the payload of the last frame is decoded with the interest set
\* table_names, and with every table of interest
D_Decode(table_names) ==
  /\ q.pc = "idle"
  /\ ledger # <<>>
  /\ q' = [q EXCEPT !.strategy = "decode"]
  /\ rb' = [NewBatch EXCEPT !.batch =
             <<DecodeDomain(PayloadObjects(ledger[Len(ledger)]), table_names),
               DecodeDomain(PayloadObjects(ledger[Len(ledger)]), AllTables)>>]
  /\ UNCHANGED <<ledger, wvars, date_from, date_to, reader>>

NextDecode ==
  \/ \E fk1, fk2 \in FrameKinds : D_Commit(fk1, fk2)
  \/ \E S \in SUBSET Range(AllTables) : 
       D_Decode(SelectSeq(AllTables, LAMBDA n : n \in S))

SpecDecode == Init /\ [][NextDecode]_vars

(***************************************************************************)
(* Specification SpecResume: ledgers longer than the retention window, a    *)
(* snapshot, and the replay query_snapshots resumes at the snapshot         *)
(***************************************************************************)
RS_AppendTransaction(fk) == Commit(fk, MaxResumeFrames)

NextResume ==
  \/ \E fk \in NodeFrameKinds : RS_AppendTransaction(fk)
  \/ \E order \in Orders(DOMAIN updates) :
       \E p \in 1..(Len(snapshots) + 1) : S_Snapshot(order, p)
  \/ \E r \in Ranges : QS_Start(r[1], r[2])
  \/ Q_HasNext
  \/ RB_Step
  \/ Q_Process

SpecResume == Init /\ [][NextResume]_vars

(***************************************************************************)
(* Specification SpecVerify: the producer, then the TPCC_ledger_verify       *)
(* handler (tpcc.cpp, ledgerVerify) over the iterator of ledgerutil.h        *)
(***************************************************************************)
\* the root the node signed in the signature frame of version v: the leaves
\* of the frames before v that the retention window holds, each the hash of
\* a whole frame from its length prefix on
SignedRoot(L, v) ==
  LET a == IF v >= MAX_HISTORY_LEN THEN v - MAX_HISTORY_LEN + 1 ELSE 1 IN
    [i \in 1..(IF v - 1 < a THEN 0 ELSE v - a) |->
       [bytes |-> L[a + i - 1], prefix |-> TRUE]]

\* ledgerVerify up to its loop: Ledger ledger(path), an empty history, and
\* begin(), which reads the first header and throws on a file of no bytes
LV_Start ==
  /\ q.pc = "idle"
  /\ reader' = LedgerReader(ledger, <<>>, 0, FALSE)
  /\ q' = IF ledger = <<>> THEN Raise(StartQuery("verify", "error"), "read")
          ELSE StartQuery("verify", "lv_loop")
  /\ UNCHANGED <<ledger, wvars, date_from, date_to, rb>>

\* one evaluation of the loop of ledgerVerify: the condition iter <=
\* ledger.end(), the body, ++iter
LV_Step ==
  /\ q.pc = "lv_loop"
  /\ LET led == reader.ledger
         it == reader.iter
         m == reader.merkle_history
     IN
     IF ~(it.iter_offset <= end(led).iter_offset)
     THEN \* return make_success(true)
          q' = [q EXCEPT !.pc = "done"] /\ UNCHANGED reader
     ELSE IF ~CanDeref(led, it)
     THEN q' = Raise(q, "decode") /\ UNCHANGED reader
     ELSE IF Len(m.leaves) >= MaxLoop
     THEN \* the history cannot grow: bad_alloc
          q' = Raise(q, "bad_alloc") /\ UNCHANGED reader
     ELSE
       LET f == led.file[CurrentFrame(led, it)]
           domain == LedgerDomainAll(f)
           sig == "ccf.signatures" \in Range(domain.table_names)
           m1 == IF sig /\ domain.version >= MAX_HISTORY_LEN
                 THEN MerkleFlush(m, domain.version - MAX_HISTORY_LEN)
                 ELSE m
           us == get_table_updates(domain, "ccf.signatures")
       IN  IF sig /\ us[1][2].node \notin Nodes
           THEN \* make_error: Could not read node
                /\ q' = Raise(q, "node")
                /\ reader' = [reader EXCEPT !.merkle_history = m1]
           ELSE IF sig /\ MerkleRoot(m1) # SignedRoot(led.file, us[1][2].upto + 1)
           THEN \* make_error: Could not verify ledger contents
                /\ q' = Raise(q, "verify")
                /\ reader' = [reader EXCEPT !.merkle_history = m1]
           ELSE /\ q' = [q EXCEPT !.tick = ~@]
                /\ reader' = [reader EXCEPT
                     !.merkle_history =
                        MerkleAppend(m1, [bytes |-> f,
                          prefix |-> tpcc_get_raw_data(led, it).start =
                                       led.fields[CurrentFrame(led, it)].start]),
                     !.iter = Increment(led, [it EXCEPT !.domain_ptr = "live"])]
  /\ UNCHANGED <<ledger, wvars, date_from, date_to, rb>>

NextVerify ==
  \/ \E fk \in FrameKinds : W_AppendTransaction(fk)
  \/ LV_Start
  \/ LV_Step

SpecVerify == Init /\ [][NextVerify]_vars /\ WF_vars(LV_Step)

(***************************************************************************)
(* Specification SpecApp: the producer, and the calls of the application's  *)
(* Snapshot object in any order                                             *)
(***************************************************************************)
\* a variant of serialize_table that does not test finalized
AS_SerializeTable_late(order, written) ==
  /\ Len(snap.ops) < MaxCalls
  /\ order \in Orders(LiveKeys(ledger, "histories"))
  /\ LET pairs == [i \in 1..Len(order) |->
                     <<order[i], LiveValue(ledger, "histories", order[i])>>]
         block == AppSerializeTable("histories", pairs)
     IN  snap' = [snap EXCEPT
                    !.context = @ \o HashedTokens(block),
                    !.file = IF written THEN @ \o block ELSE @,
                    !.ops = Append(@, AppCall("serialize_table", ~written,
                                              AbsentHash))]
  /\ UNCHANGED <<ledger, updates, ledger_offset, snap_file, snap_rec, snap_by,
                 rd, disk, snapshots, ins, qvars>>

\* Snapshot::serialize_table of the live histories table, visited by foreach
\* in `order`; `written` is whether the writes to the file succeed
AS_SerializeTable(order, written) ==
  /\ Len(snap.ops) < MaxCalls
  /\ order \in Orders(LiveKeys(ledger, "histories"))
  /\ LET pairs == [i \in 1..Len(order) |->
                     <<order[i], LiveValue(ledger, "histories", order[i])>>]
         block == AppSerializeTable("histories", pairs)
     IN  snap' =
           IF snap.finalized
           THEN [snap EXCEPT
                   !.ops = Append(@, AppCall("serialize_table", TRUE, AbsentHash))]
           ELSE [snap EXCEPT
                   !.context = @ \o HashedTokens(block),
                   !.file = IF written THEN @ \o block ELSE @,
                   !.ops = Append(@, AppCall("serialize_table", ~written,
                                             AbsentHash))]
  /\ UNCHANGED <<ledger, updates, ledger_offset, snap_file, snap_rec, snap_by,
                 rd, disk, snapshots, ins, qvars>>

\* Snapshot::finalize, called on a snapshot that is not finalized
AS_Finalize ==
  /\ Len(snap.ops) < MaxCalls
  /\ ~snap.finalized
  /\ snap' = [snap EXCEPT !.finalized = TRUE,
                          !.digest = HashBytes(snap.context),
                          !.ops = Append(@, AppCall("finalize", FALSE, AbsentHash))]
  /\ UNCHANGED <<ledger, updates, ledger_offset, snap_file, snap_rec, snap_by,
                 rd, disk, snapshots, ins, qvars>>

\* Snapshot::hash
AS_Hash ==
  /\ Len(snap.ops) < MaxCalls
  /\ snap' = [snap EXCEPT !.ops = Append(@,
                IF ~snap.finalized THEN AppCall("hash", TRUE, AbsentHash)
                ELSE AppCall("hash", FALSE, [snap.digest EXCEPT !.len = HASH_LEN]))]
  /\ UNCHANGED <<ledger, updates, ledger_offset, snap_file, snap_rec, snap_by,
                 rd, disk, snapshots, ins, qvars>>

\* the first transaction commits: the live tables the handler serializes
AS_AppendTransaction(fk) == Commit(fk, 1)

NextApp ==
  \/ \E fk \in FrameKinds : AS_AppendTransaction(fk)
  \/ \E order \in Orders(LiveKeys(ledger, "histories")) :
       \E written \in BOOLEAN : AS_SerializeTable(order, written)
  \/ AS_Finalize
  \/ AS_Hash

SpecApp == Init /\ [][NextApp]_vars

(***************************************************************************)
(* Specification SpecConc: the snapshot-writer path appends to the index    *)
(* while a query dispatched by the RPC layer looks a snapshot up in it      *)
(***************************************************************************)
C_AppendTransaction(fk) == Commit(fk, MaxIndexFrames)

\* SnapshotManager::append(snap_rec) up to its call of snapshots.insert: a
\* snapshot without index_value is ignored, else the insert begins. No lock
\* is taken.
C_AppendBegin(p) ==
  /\ snap_by = "kv"
  /\ ~ins.active
  /\ Len(snapshots) < MaxSnapshots
  /\ snap_rec.index_value # NullTime
  /\ \A i \in 1..Len(snapshots) : snapshots[i].version # snap_rec.version
  /\ p \in InsertPositions(snapshots, snap_rec)
  /\ ins' = [active |-> TRUE, rec |-> snap_rec, p |-> p]
  /\ UNCHANGED <<ledger, updates, ledger_offset, snap_file, snap_rec, snap_by,
                 rd, disk, snapshots, qvars, snap>>

\* the insert links the record in and append returns
C_AppendEnd ==
  /\ ins.active
  /\ snapshots' = ManagerAppend(snapshots, ins.rec, ins.p)
  /\ ins' = NoInsert
  /\ UNCHANGED <<ledger, updates, ledger_offset, snap_file, snap_rec, snap_by,
                 rd, disk, qvars, snap>>

\* query_snapshots, lines 152-157: the reference to the manager's list is
\* taken and lower_bound(from) is entered. No lock is taken.
C_LookupBegin(from, to) ==
  /\ q.pc = "idle"
  /\ date_from' = from /\ date_to' = to
  /\ q' = StartQuery("snapshots", "qs_lookup")
  /\ UNCHANGED <<ledger, wvars, reader, rb>>

\* query_snapshots, lines 159-176: the lookups return and the snapshot to
\* start from is copied. With an insert under way the list is read while
\* it is written, a data race: the reader may see the list without the
\* record, with it, or fault on a half-linked node.
C_LookupEnd ==
  /\ q.pc = "qs_lookup"
  /\ \E seen \in {"old"} \cup (IF ins.active THEN {"new", "torn"} ELSE {}) :
       IF seen = "torn"
       THEN q' = [q EXCEPT !.pc = "crashed"]
       ELSE LET view == IF seen = "new"
                        THEN ManagerAppend(snapshots, ins.rec, ins.p)
                        ELSE snapshots
                it0 == lower_bound(view, date_from)
                it == IF it0 = Len(view) + 1 THEN it0 - 1 ELSE it0
            IN  IF RangePrecedes(view, date_from, date_to)
                THEN q' = [q EXCEPT !.pc = "done"]
                ELSE q' = [q EXCEPT !.pc = "looked",
                                    !.opened = {view[it].version}]
  /\ UNCHANGED <<ledger, wvars, date_from, date_to, reader, rb>>

NextConc ==
  \/ \E fk \in FrameKinds : C_AppendTransaction(fk)
  \/ \E order \in Orders(DOMAIN updates) : W_Create(order)
  \/ \E p \in 1..(Len(snapshots) + 1) : C_AppendBegin(p)
  \/ C_AppendEnd
  \/ \E r \in Ranges : C_LookupBegin(r[1], r[2])
  \/ C_LookupEnd

SpecConc == Init /\ [][NextConc]_vars

(***************************************************************************)
(* Specification SpecHdr: query_ledger on a ledger file one of whose frames *)
(* carries a size field larger than its writer wrote                        *)
(***************************************************************************)
\* the size fields of frame i of the file: "txn" puts the end of the frame
\* one byte past the end of the file, "pub" puts the end of the public
\* payload one byte past the end of the frame
TamperedFields(led, i, kind) ==
  LET f == led.fields[i] IN
    IF kind = "txn"
    THEN [f EXCEPT !.txn_size = (led.size - (f.start + TXN_SIZE_FIELD)) + 1]
    ELSE [f EXCEPT !.domain_size =
            (f.txn_size - (GCM_SIZE_FIELD + DOMAIN_SIZE_FIELD)) + 1]

\* HistoryQuery(from, to).query_ledger(results) on that file, up to its loop
H_Start(from, to, i, kind) ==
  /\ q.pc = "idle"
  /\ i \in 1..Len(ledger)
  /\ date_from' = from /\ date_to' = to
  /\ LET led0 == Ledger(ledger, <<"histories">>, 0)
         led == [led0 EXCEPT !.fields[i] = TamperedFields(led0, i, kind)]
     IN  reader' = [ledger |-> led, iter |-> begin(led),
                    merkle_history |-> NewMerkle, reading_at_offset |-> FALSE]
  /\ q' = StartQuery("header", "hdr_loop")
  /\ UNCHANGED <<ledger, wvars, rb>>

\* one evaluation of the loop. operator* hands LedgerDomain the bytes
\* (buffer + domain_offset, domain_size) unchecked: a payload that runs past
\* the buffer is read outside it, which is undefined (an unpack error, a
\* fault, or a domain of whatever was read); one that runs past the frame
\* unpacks the bytes that follow the frame
H_Step ==
  /\ q.pc = "hdr_loop"
  /\ LET led == reader.ledger
         it == reader.iter
         cur == CurrentFrame(led, it)
     IN  IF it.iter_offset <= end(led).iter_offset /\ cur # 0
            /\ it.domain_size # PublicSize(led.file[cur])
         THEN LET out_of_buffer == it.domain_offset + it.domain_size > led.size IN
              \E out \in (IF out_of_buffer THEN {"decode", "crashed", "garbage"}
                          ELSE {"decode", "garbage"}) :
                /\ q' = CASE out = "decode" ->
                               [Raise(q, "decode") EXCEPT !.outside = out_of_buffer]
                           [] out = "crashed" ->
                               [q EXCEPT !.pc = "crashed", !.outside = TRUE]
                           [] OTHER ->
                               [q EXCEPT !.tick = ~@, !.outside = out_of_buffer]
                /\ reader' = IF out = "garbage"
                             THEN [reader EXCEPT !.iter =
                                     Increment(led, [it EXCEPT !.domain_ptr = "live"])]
                             ELSE reader
         ELSE ScanStep(LAMBDA f : LedgerDomain(f, led.tables))
  /\ UNCHANGED <<ledger, wvars, date_from, date_to, rb>>

NextHdr ==
  \/ \E fk \in FrameKinds : W_AppendTransaction(fk)
  \/ \E r \in Ranges : \E i \in 1..Len(ledger) : \E kind \in {"txn", "pub"} :
       H_Start(r[1], r[2], i, kind)
  \/ H_Step

SpecHdr == Init /\ [][NextHdr]_vars

(***************************************************************************)
(* Specification SpecS: the producer and the snapshot writer, then a        *)
(* verified replay and a snapshot query of the same range                   *)
(***************************************************************************)
NextS ==
  \/ \E fk \in FrameKinds : W_AppendTransaction(fk)
  \/ \E order \in Orders(DOMAIN updates) :
       \E p \in 1..(Len(snapshots) + 1) : S_Snapshot(order, p)
  \/ \E r \in Ranges : QV_Start(r[1], r[2])
  \/ \E r \in Ranges : QS_Start(r[1], r[2])
  \/ Q_HasNext
  \/ RB_Step
  \/ Q_Process

SpecS == Init /\ [][NextS]_vars

(***************************************************************************)
(* Claims about the snapshot writer                                         *)
(***************************************************************************)
\* the transactions folded into the snapshot written last
FoldedLedger == SubSeq(ledger, 1, snap_rec.version)

TablesOf(L) == UNION {{L[i].secs[j].name : j \in 1..Len(L[i].secs)} : i \in 1..Len(L)}

\* C4: the block create() serializes for a table holds exactly one (key,
\* value) pair for each key whose most recent action among the appended
\* transactions is a WRITE, with the value of that WRITE, none for a key
\* whose most recent action is a REMOVE, and no key twice.
C4_LastWriteWins ==
  snap_by = "kv" =>
    LET bs == KvBlocks(snap_file) IN
      /\ {bs[i].name : i \in 1..Len(bs)} = TablesOf(FoldedLedger)
      /\ \A i, j \in 1..Len(bs) : bs[i].name = bs[j].name => i = j
      /\ \A i \in 1..Len(bs) :
           LET d == bs[i].data IN
             /\ \A a, b \in 1..Len(d) : d[a][1] = d[b][1] => a = b
             /\ Range(d) = {<<k, LiveValue(FoldedLedger, bs[i].name, k)>> :
                              k \in LiveKeys(FoldedLedger, bs[i].name)}

\* a snapshot over transactions that overwrite a key and remove a key
C4_Witness ==
  /\ snap_by = "kv"
  /\ LET us == TableLog(FoldedLedger, "histories") IN
       /\ \E i, j \in 1..Len(us) :
            i < j /\ us[i].key = us[j].key /\ us[i].action = "WRITE"
              /\ us[j].action = "WRITE" /\ us[i].val # us[j].val
       /\ \E i \in 1..Len(us) : us[i].action = "REMOVE"
       /\ LiveKeys(FoldedLedger, "histories") # {}

(***************************************************************************)
(* Claims about the snapshot reader                                         *)
(***************************************************************************)
\* C5: SnapshotReader::read succeeds only if the trusted hash has all 32
\* bytes and each of them equals the byte of the digest the reader
\* recomputed; with any other trusted hash (a shorter one, an empty one)
\* read fails and exposes no table.
C5_ReadOnlyIfHashEqual ==
  rd.status = "ok" =>
    /\ rd.signed.len = HASH_LEN
    /\ \A i \in 1..HASH_LEN : ByteAt(rd.signed, i) = ByteAt(rd.digest, i)

\* the tables with their pairs that the SnapshotWriter put into file toks
WrittenTables(toks) ==
  LET bs == KvBlocks(toks) IN {<<bs[i].name, bs[i].data>> : i \in 1..Len(bs)}

\* C6: a file written by SnapshotWriter::create and read by
\* SnapshotReader::read against the hash of the Snapshot record that create
\* returned is read without error, into the table names and the pairs that
\* were written, and the digest recomputed is the record's hash.
C6_RoundTrip ==
  (snap_by = "kv" /\ rd.status # "new" /\ rd.signed = snap_rec.hash) =>
    /\ rd.status = "ok"
    /\ Range(rd.table_buffers) = WrittenTables(snap_file)
    /\ Range(rd.table_names) = {b[1] : b \in WrittenTables(snap_file)}
    /\ rd.digest = snap_rec.hash

(***************************************************************************)
(* Claims about the verified replay                                         *)
(***************************************************************************)
\* C1: read_batch hands a batch to its caller only if verify_batch returned
\* true for the batch's closing signature frame; when it returned false the
\* caller gets null and raises an error.
C1_BatchOnlyIfVerified ==
  q.pc = "process" => rb.vres = "true"

RECURSIVE InsertSorted(_, _)
InsertSorted(x, sorted) ==
  IF sorted = <<>> THEN <<x>>
  ELSE IF x <= Head(sorted) THEN <<x>> \o sorted
  ELSE <<Head(sorted)>> \o InsertSorted(x, Tail(sorted))

\* the elements of a result list in ascending order, duplicates kept
RECURSIVE Sorted(_)
Sorted(results) ==
  IF results = <<>> THEN <<>>
  ELSE InsertSorted(Head(results), Sorted(Tail(results)))

\* C2: when the full verified replay returns, its sorted result equals the
\* sorted result of query_kv over the live histories table of the same
\* ledger and range, in whichever order the table is visited.
C2_KvEqualsReplay ==
  (q.strategy = "verified" /\ q.pc = "done") =>
    \A order \in Orders(LiveKeys(ledger, "histories")) :
      Sorted(query_kv(ledger, order, date_from, date_to)) = Sorted(q.results)

\* C9: when a verified replay or a snapshot query ends by raising an error
\* (a null batch, no node for the signature, a snapshot that does not read),
\* the caller's result list holds no entry the query added.
C9_NoPartialResults ==
  (q.pc = "error" /\ q.err \in {"null_batch", "node", "snapshot"}) =>
    q.results = <<>>

(***************************************************************************)
(* Claims about the scan by direct iteration                                *)
(***************************************************************************)
\* C10: query_ledger and query_history_ledger, once in their loop,
\* eventually leave it: the scan ends at the end of the file.
C10_ScanTerminates ==
  (q.pc \in {"ql_loop", "tq_loop"}) ~> (q.pc \in {"done", "error"})

(***************************************************************************)
(* Claims about the snapshot query                                          *)
(***************************************************************************)
\* C3: when the index holds a snapshot with index_value <= from, the sorted
\* result of query_snapshots equals the sorted result of the verified
\* replay of the same ledger and range.
C3_SnapshotsEqualReplay ==
  (/\ q.strategy = "snapshots" /\ q.pc = "done" /\ q.prev_by = "verified"
   /\ \E i \in 1..Len(snapshots) : snapshots[i].index_value <= date_from) =>
    Sorted(q.results) = Sorted(q.prev)

\* C7: the root a resumed LedgerReader verifies at a signature frame equals
\* the root a reader that replayed the ledger from offset 0 verifies there.
C7_ResumedRootsEqual ==
  (q.strategy = "snapshots" /\ rb.root_at # 0) =>
    rb.root = FromZeroRoot(ledger, rb.root_at)

\* the history entries the ledger wrote with a date in [from, to]
EntriesInRange ==
  LET us == TableLog(ledger, "histories") IN
    {us[i].val : i \in {j \in 1..Len(us) :
                          /\ us[j].action = "WRITE"
                          /\ us[j].val.date >= date_from
                          /\ us[j].val.date <= date_to}}

\* C8: every element of a result list is the c_id of a history entry whose
\* date lies in [from, to].
C8_ResultsAreCustomerIds ==
  \A i \in 1..Len(q.results) :
    \E h \in EntriesInRange : h.c_id = q.results[i]

(***************************************************************************)
(* Claims about LedgerReader::read_batch and has_next                       *)
(***************************************************************************)
\* C11: read_batch makes at most one pass over the frames that remain: no
\* frame of the ledger enters the batch twice, and a batch is handed to the
\* caller only when a signature frame closed it.
C11_ReadBatchOnePass ==
  /\ \A i, j \in 1..Len(rb.batch) :
       rb.batch[i].version = rb.batch[j].version => i = j
  /\ q.pc = "process" => rb.batch_complete

(***************************************************************************)
(* Claims about the boundaries of a query                                   *)
(***************************************************************************)
\* C12: on a ledger of no bytes query_kv (over the empty table),
\* query_ledger, query_ledger_verified and query_snapshots return an empty
\* result list and raise no error.
C12_EmptyLedgerEmptyResult ==
  ledger = <<>> =>
    /\ \A r \in Ranges : query_kv(ledger, <<>>, r[1], r[2]) = <<>>
    /\ q.strategy \in {"ledger", "verified", "snapshots"} =>
         /\ q.pc \notin {"error", "crashed"}
         /\ q.results = <<>>

\* C13: a query_snapshots whose lower_bound(from) and lower_bound(to) are
\* both the first position of the index returns at once: the result is
\* empty, no snapshot file was opened, no LedgerReader was built, and no
\* error is raised.
C13_RangePrecedesSnapshots ==
  [][(/\ q.pc \in {"idle", "done"}
      /\ q' # q
      /\ q'.strategy = "snapshots"
      /\ lower_bound(snapshots, date_from') = 1
      /\ lower_bound(snapshots, date_to') = 1) =>
       /\ q'.pc = "done"
       /\ q'.results = <<>>
       /\ q'.opened = {}
       /\ reader' = reader]_vars

\* the early return was taken with snapshots registered and with history
\* entries of the ledger in the range
C13_Witness ==
  /\ q.strategy = "snapshots" /\ q.pc = "done"
  /\ snapshots # <<>>
  /\ lower_bound(snapshots, date_from) = 1
  /\ lower_bound(snapshots, date_to) = 1
  /\ q.prev_by = "none"
  /\ EntriesInRange # {}

(***************************************************************************)
(* Claims about the snapshot index                                          *)
(***************************************************************************)
\* C14: the records of the index are in non-decreasing order of
\* index_value, and lower_bound(v) is the first position whose index_value
\* is at least v, the end position when there is none.
C14_IndexSorted ==
  /\ \A i \in 1..(Len(snapshots) - 1) :
       snapshots[i].index_value <= snapshots[i + 1].index_value
  /\ \A v \in 0..(MaxDate + 1) :
       LET lb == lower_bound(snapshots, v) IN
         /\ lb \in 1..(Len(snapshots) + 1)
         /\ \A i \in 1..(lb - 1) : snapshots[i].index_value < v
         /\ lb <= Len(snapshots) => snapshots[lb].index_value >= v

\* the index holds two records of equal index_value, and lower_bound of a
\* value above all of them is the end position
C14_Witness ==
  /\ \E i, j \in 1..Len(snapshots) :
       i < j /\ snapshots[i].index_value = snapshots[j].index_value
  /\ lower_bound(snapshots, MaxDate + 1) = Len(snapshots) + 1

\* C15: append of a snapshot with no index_value leaves the index as it
\* was; append of a snapshot with an index_value adds that one record, the
\* records that were there staying as they were, in their order.
C15_AppendFrame ==
  [][ledger' = ledger =>
       IF snap_rec'.index_value = NullTime
       THEN snapshots' = snapshots
       ELSE \E p \in 1..(Len(snapshots) + 1) :
              snapshots' = InsertAt(snapshots, snap_rec', p)]_vars

\* a snapshot with an index_value was appended in front of the record of
\* an earlier snapshot
C15_Witness ==
  /\ snap_by = "kv"
  /\ snap_rec.index_value # NullTime
  /\ \E i, j \in 1..Len(snapshots) :
       i < j /\ snapshots[i] = snap_rec
         /\ snapshots[j].version < snap_rec.version

(***************************************************************************)
(* Claims about the ledger cursor                                           *)
(***************************************************************************)
\* C16: has_next is true exactly when a frame of the ledger has not been
\* consumed by read_batch: the iterator has read the header of a frame whose
\* domain read_batch has not taken.
C16_HasNextIffUnconsumed ==
  q.pc = "has_next" =>
    (has_next(reader) <=>
       /\ CanDeref(reader.ledger, reader.iter)
       /\ reader.iter.domain_ptr # "moved")

\* C17: an advance of the iterator that is not at the end moves it to the
\* frame that begins at the start of the frame it was at plus the length
\* field plus that frame's size, a greater offset; an advance of an iterator
\* at the end leaves its position as it was.
C17_CursorMonotone ==
  [][(reader'.ledger = reader.ledger /\ q'.pc = q.pc) =>
       LET a == reader.iter
           b == reader'.iter
       IN  IF a.iter_offset >= reader.ledger.size
           THEN /\ b.iter_offset = a.iter_offset
                /\ b.txn_offset = a.txn_offset
                /\ b.txn_size = a.txn_size
                /\ b.domain_offset = a.domain_offset
                /\ b.domain_size = a.domain_size
           ELSE /\ b.txn_offset - TXN_SIZE_FIELD =
                     (a.txn_offset - TXN_SIZE_FIELD) + TXN_SIZE_FIELD + a.txn_size
                /\ a.txn_offset < b.txn_offset
                /\ reader.ledger.offset + b.txn_offset - TXN_SIZE_FIELD =
                     FrameStart(ledger, CurrentFrame(reader.ledger, a) + 1)]_vars

\* a scan advanced over two frames and then advanced at the end
C17_Witness ==
  /\ q.pc = "ql_loop"
  /\ Len(ledger) >= 3
  /\ reader.iter.iter_offset = reader.ledger.size
  /\ CurrentFrame(reader.ledger, reader.iter) = Len(ledger)
  /\ reader.iter.domain_ptr = "live"

(***************************************************************************)
(* Claims about the signing node                                            *)
(***************************************************************************)
\* the node named by the signature of signature frame f
SignerOf(f) == FirstSection(f, "ccf.signatures").writes[1][2].node

\* C18: once read_batch has come to verify a signature frame that names a
\* node the node table does not hold, the query has ended in the fatal
\* error of the missing node: the batch is not completed, not handed over,
\* and not reported as a failed verification.
C18_MissingNodeIsFatal ==
  (/\ q.strategy = "verified"
   /\ rb.root_at # 0
   /\ SignerOf(ledger[rb.root_at]) \notin Nodes) =>
    (q.pc = "error" /\ q.err = "node")

(***************************************************************************)
(* Claims about malformed frames                                            *)
(***************************************************************************)
\* the header the iterator read last puts the end of its frame past the end
\* of the file, or the end of its public payload past the end of its frame
HeaderMalformed(led, it) ==
  /\ CanDeref(led, it)
  /\ \/ it.txn_offset + it.txn_size > led.size
     \/ it.domain_offset + it.domain_size > it.txn_offset + it.txn_size

\* C19: once the iterator has read a header whose frame_size puts the frame's
\* end past the end of the file, or whose public_size puts the end of the
\* public payload past the end of the frame, the read has failed with a
\* malformed-frame error; and nothing is read outside the ledger buffer.
C19_MalformedFrameFails ==
  q.strategy = "header" =>
    /\ HeaderMalformed(reader.ledger, reader.iter) =>
         (q.pc = "error" /\ q.err = "malformed")
    /\ ~q.outside

(***************************************************************************)
(* Claims about concurrent use of the snapshot index                        *)
(***************************************************************************)
\* C20: a query's lookup in the snapshot index and an insert of
\* SnapshotManager::append are never under way at the same time.
C20_IndexMutualExclusion ==
  ~(q.pc = "qs_lookup" /\ ins.active)

(***************************************************************************)
(* Claims about the query over the live table                               *)
(***************************************************************************)
\* the live histories entries whose date lies in [date_from, date_to]
LiveInRange ==
  {k \in LiveKeys(ledger, "histories") :
     /\ date_from <= LiveValue(ledger, "histories", k).date
     /\ LiveValue(ledger, "histories", k).date <= date_to}

\* C21: the result of query_kv is the multiset of the c_id of the live
\* histories entries whose date lies in [from, to], both bounds inclusive,
\* whatever the order of the visit: every c_id occurs as many times as live
\* entries in range carry it, and nothing else occurs.
C21_KvResultIsLiveInRange ==
  (q.strategy = "kv" /\ q.pc = "done") =>
    /\ Len(q.results) = Cardinality(LiveInRange)
    /\ \A c \in Range(q.results) \cup
                {LiveValue(ledger, "histories", k).c_id : k \in LiveInRange} :
         Cardinality({i \in 1..Len(q.results) : q.results[i] = c}) =
         Cardinality({k \in LiveInRange :
                        LiveValue(ledger, "histories", k).c_id = c})

\* a query that keeps a live entry dated exactly `to` and leaves another
\* live entry out
C21_Witness ==
  /\ q.strategy = "kv" /\ q.pc = "done"
  /\ Len(q.results) = 1
  /\ Cardinality(LiveKeys(ledger, "histories")) = 2
  /\ \E k \in LiveInRange : LiveValue(ledger, "histories", k).date = date_to

(***************************************************************************)
(* Claims about the frames a verified replay consumes                       *)
(***************************************************************************)
\* the frames of the ledger that write histories entries all of which are
\* dated after date_to
BeyondRange ==
  {i \in 1..Len(ledger) :
     /\ HasSection(ledger[i], "histories")
     /\ FirstSection(ledger[i], "histories").writes # <<>>
     /\ \A w \in Range(FirstSection(ledger[i], "histories").writes) :
          w[2].date > date_to}

\* C22: for any range [f, t] the verified replay reads at most one frame
\* whose least histories date exceeds t: the frames read_batch has decoded
\* into its batch hold at most one such frame, also when several lie before
\* the next signature frame.
C22_AtMostOneFrameBeyondRange ==
  q.strategy = "verified" =>
    Cardinality({rb.batch[i].version : i \in 1..Len(rb.batch)}
                  \cap BeyondRange) <= 1

(***************************************************************************)
(* Claims about the Merkle history of a verified replay                     *)
(***************************************************************************)
\* the leaves of frames a..b of the ledger, in ledger order
LeavesOf(a, b) ==
  [i \in 1..(IF b < a THEN 0 ELSE b - a + 1) |-> LeafOf(ledger[a + i - 1])]

\* the first frame whose leaf the history retains when the signature frame
\* of version v is verified
FirstRetained(v) ==
  IF v >= MAX_HISTORY_LEN THEN v - MAX_HISTORY_LEN + 1 ELSE 1

C24_RawDataIsWholeFrame ==
  (q.strategy = "verified" /\ CanDeref(reader.ledger, reader.iter)) =>
    LET i == CurrentFrame(reader.ledger, reader.iter) IN
      /\ get_raw_data(reader.ledger, reader.iter) =
           [start |-> FrameStart(ledger, i),
            size |-> FrameSize(ledger[i]) + TXN_SIZE_FIELD]
      /\ get_raw_data(reader.ledger, reader.iter) =
           tpcc_get_raw_data(reader.ledger, reader.iter)

\* C25: during a verified replay every frame read_batch consumes adds
\* exactly one leaf to the Merkle history, in ledger order: the leaves the
\* history holds are the leaves of a run of consecutive frames of the
\* ledger, no frame hashed twice and none skipped.
C25_OneLeafPerFrame ==
  q.strategy = "verified" =>
    LET leaves == reader.merkle_history.leaves IN
      /\ \A i, j \in 1..Len(leaves) : leaves[i] = leaves[j] => i = j
      /\ \E a \in 1..(Len(ledger) + 1) :
           /\ a + Len(leaves) - 1 <= Len(ledger)
           /\ leaves = LeavesOf(a, a + Len(leaves) - 1)

(***************************************************************************)
(* Claims about the batches read_batch returns                              *)
(***************************************************************************)
\* the batch handed to the caller of read_batch: the decoded frames of a
\* run of consecutive frames of the ledger, of which the last, and only the
\* last, is a signature frame; the cursor has moved past the run (at the
\* end of the file it stays on the last frame)
BatchShape ==
  q.pc = "process" =>
    LET n == Len(rb.batch)
        first == rb.batch[1].version
        cur == CurrentFrame(reader.ledger, reader.iter)
    IN  /\ n >= 1
        /\ \A i \in 1..n :
             /\ rb.batch[i].version = first + i - 1
             /\ rb.batch[i] = LedgerDomain(ledger[first + i - 1], <<"histories">>)
             /\ HasSection(ledger[first + i - 1], "ccf.signatures") <=> i = n
        /\ cur = IF first + n - 1 = Len(ledger) THEN Len(ledger) ELSE first + n

\* a step that puts the first domain into a batch takes the frame under the
\* cursor, and the cursor does not move between two calls of read_batch
BatchAdjacent ==
  /\ (q.pc = "read_batch" /\ rb.batch = <<>> /\ rb'.batch # <<>>) =>
       rb'.batch[1].version = CurrentFrame(reader.ledger, reader.iter)
  /\ q.pc \in {"process", "has_next"} => reader' = reader

\* C26: every batch read_batch returns is a run of consecutive frames in
\* cursor order with exactly one signature frame, its last element, and
\* the next batch begins with the frame that follows it: no frame is in two
\* batches and none between two returned batches is left out.
C26_BatchesPartitionLedger ==
  [](q.strategy = "verified" => BatchShape) /\
  [][q.strategy = "verified" => BatchAdjacent]_vars

\* a second batch of two frames was returned
C26_Witness ==
  /\ q.strategy = "verified" /\ q.pc = "process"
  /\ Len(rb.batch) >= 2
  /\ rb.batch[1].version > 1
  /\ rb.batch[Len(rb.batch)].signature

(***************************************************************************)
(* Claims about the snapshot a query starts from                            *)
(***************************************************************************)
\* C27: when some snapshot of the index has index_value < from, the
\* snapshot query_snapshots opens is one with the largest index_value
\* strictly below from.
C27_StartIsLargestBelowFrom ==
  (/\ q.strategy = "snapshots" /\ q.opened # {}
   /\ \E i \in 1..Len(snapshots) : snapshots[i].index_value < date_from) =>
    \E i \in 1..Len(snapshots) :
      /\ snapshots[i].version \in q.opened
      /\ snapshots[i].index_value < date_from
      /\ \A j \in 1..Len(snapshots) :
           snapshots[j].index_value < date_from =>
             snapshots[j].index_value <= snapshots[i].index_value

(***************************************************************************)
(* Claims about the Snapshot record create() returns                        *)
(***************************************************************************)
\* C28: the index_value of the Snapshot create() returns is the date of the
\* most recent histories write that the snapshot retains (a WRITE that is
\* the last action on its key); when the snapshot retains no histories
\* entry the index_value is unset.
C28_IndexValueOfRetainedWrite ==
  snap_by = "kv" =>
    LET us == TableLog(FoldedLedger, "histories")
        retained == {i \in 1..Len(us) :
                       us[i].action = "WRITE" /\ LastIndexOf(us, us[i].key) = i}
    IN  snap_rec.index_value =
          IF retained = {} THEN NullTime
          ELSE us[CHOOSE i \in retained : \A j \in retained : j <= i].val.date

\* C29: after the SnapshotWriter has absorbed the frames of the ledger its
\* ledger_offset is the sum of 4 + frame_size over them, the offset of the
\* frame that follows, private payloads included, and the Snapshot record
\* create() returns holds that value for the frames folded into it.
C29_LedgerOffsetIsEndOfLastFrame ==
  /\ ledger_offset = FileSize(ledger)
  /\ snap_by = "kv" => snap_rec.ledger_offset = FileSize(FoldedLedger)

(***************************************************************************)
(* Claims about the decoded public domain                                   *)
(***************************************************************************)
\* C30: the table_names of a decoded domain are the tables of the interest
\* set that occur as table sections in the frame: in a verified replay,
\* whose interest set is {"histories"}, get_table_names() of a domain of
\* the batch holds "histories" exactly when the frame has a histories
\* section (a domain the loop pushed a second time, emptied by std::move,
\* is left aside).
C30_TableNamesOccurInFrame ==
  q.strategy = "verified" =>
    \A i \in 1..Len(rb.batch) :
      (\A j \in 1..(i - 1) : rb.batch[j].version # rb.batch[i].version) =>
        ("histories" \in Range(rb.batch[i].table_names)
           <=> HasSection(ledger[rb.batch[i].version], "histories"))

\* C31: in a verified replay, whose interest set is {"histories"}, a frame
\* is treated as a signature frame exactly when its public payload has a
\* ccf.signatures section, and the domain then hands the signature value of
\* that section to the verifier (a domain the loop pushed a second time is
\* left aside).
C31_SignatureValueAvailable ==
  q.strategy = "verified" =>
    \A i \in 1..Len(rb.batch) :
      (\A j \in 1..(i - 1) : rb.batch[j].version # rb.batch[i].version) =>
        /\ is_signature_txn(rb.batch[i])
             <=> HasSection(ledger[rb.batch[i].version], "ccf.signatures")
        /\ is_signature_txn(rb.batch[i]) =>
             get_table_updates(rb.batch[i], "ccf.signatures") # <<>>

\* C32: decoding a payload with an interest set S gives, for every table of
\* S, the version and the writes in file order that decoding with every
\* table of interest gives: the sections of the other tables are consumed,
\* writes and removes, without storing anything and without shifting the
\* decoding of the sections that follow.
C32_InterestSetRestricts ==
  q.strategy = "decode" =>
    LET dS == rb.batch[1]
        dAll == rb.batch[2]
        f == ledger[Len(ledger)]
    IN  /\ dS.ok /\ dAll.ok
        /\ dS.version = dAll.version /\ dS.version = f.ver
        /\ DOMAIN dS.table_updates =
             DOMAIN dAll.table_updates \cap Range(dS.table_names)
        /\ \A n \in DOMAIN dS.table_updates :
             /\ dS.table_updates[n] = dAll.table_updates[n]
             /\ dS.table_updates[n] = FirstSection(f, n).writes
        /\ dS.table_updates = LedgerDomain(f, dS.table_names).table_updates

\* a payload whose first section, of a table outside the interest set,
\* removes a key, and whose second section, of a table of the set, writes
C32_Witness ==
  /\ q.strategy = "decode"
  /\ LET dS == rb.batch[1]
         f == ledger[Len(ledger)]
     IN  /\ Len(f.secs) = 2
         /\ f.secs[1].name \notin Range(dS.table_names)
         /\ f.secs[1].removes # <<>>
         /\ f.secs[2].name \in Range(dS.table_names)
         /\ f.secs[2].name \in DOMAIN dS.table_updates
         /\ dS.table_updates[f.secs[2].name] # <<>>

\* the step of read_batch that verifies a signature frame: the batch had no
\* verified root and has one after it
VerificationStep ==
  q.pc = "read_batch" /\ rb.root_at = 0 /\ rb'.root_at # 0

\* C33: verifying the signature of a signature frame does not mutate the
\* Merkle history: the root the verification reads is the root of the
\* history as it was before the step, and no leaf retained before the step
\* is dropped by it, whatever the version of the frame.
C33_VerificationKeepsHistory ==
  [][VerificationStep =>
       /\ rb'.root = MerkleRoot(reader.merkle_history)
       /\ reader'.merkle_history.first = reader.merkle_history.first]_vars

\* C34: a reader resumed at a snapshot offset flushes again once the window
\* has accumulated: when it verifies a signature frame with MAX_HISTORY_LEN
\* leaves or more retained, that step performs flush(version -
\* MAX_HISTORY_LEN) and drops the oldest leaves, so that the retained leaves
\* stay bounded.
C34_FlushResumes ==
  [][(VerificationStep /\ q.strategy = "snapshots"
        /\ Len(reader.merkle_history.leaves) >= MAX_HISTORY_LEN) =>
       reader'.merkle_history.first > reader.merkle_history.first]_vars

\* the writes of the histories table in ledger order
HistoryWriteLog ==
  SelectSeq(TableLog(ledger, "histories"), LAMBDA u : u.action = "WRITE")

\* the ledger ends with a signature frame and its history dates do not
\* decrease in ledger order
SignedAndDateOrdered ==
  /\ ledger # <<>>
  /\ HasSection(ledger[Len(ledger)], "ccf.signatures")
  /\ \A i, j \in 1..Len(HistoryWriteLog) :
       i < j => HistoryWriteLog[i].val.date <= HistoryWriteLog[j].val.date

\* the c_id of every history write dated within [date_from, date_to]
WritesInRange ==
  LET in == SelectSeq(HistoryWriteLog,
                      LAMBDA u : date_from <= u.val.date /\ u.val.date <= date_to)
  IN  [i \in 1..Len(in) |-> in[i].val.c_id]

\* C35: on a ledger that ends with a signature frame and whose history dates
\* do not decrease, query_ledger_verified(from, to) returns, and returns
\* exactly the c_id of every history write dated within [from, to], once per
\* write.
C35_VerifiedReplayReturnsRange ==
  (q.strategy = "verified" /\ q.pc \in {"done", "error", "crashed"}
     /\ SignedAndDateOrdered) =>
    (q.pc = "done" /\ q.results = WritesInRange)

\* the c_ids of the history writes of frames L dated within the range, in
\* ledger order
ReplayInRange(L) ==
  LET in == SelectSeq(TableLog(L, "histories"),
              LAMBDA u : /\ u.action = "WRITE"
                         /\ date_from <= u.val.date /\ u.val.date <= date_to)
  IN  [i \in 1..Len(in) |-> in[i].val.c_id]

C37_StartIsElementOfIndex ==
  q.strategy = "snapshots" =>
    /\ q.err # "end_position"
    /\ \A v \in q.opened : \E i \in 1..Len(snapshots) : snapshots[i].version = v
    /\ q.opened = {} => (q.pc = "done" /\ q.results = <<>>)

\* query_snapshots has run on an empty index
C37_Witness ==
  /\ q.strategy = "snapshots" /\ q.pc = "done"
  /\ snapshots = <<>>
  /\ q.opened = {}

\* the tables get_table_snapshot hands out in the reader's state
ExposedTables ==
  {i \in 1..Len(rd.table_buffers) :
     get_table_snapshot(rd, rd.table_buffers[i][1]) # <<>>}

C39_VerifyReturnsSuccess ==
  (q.strategy = "verify" /\ q.pc \in {"done", "error"} /\ ledger # <<>>) =>
    q.pc = "done"

\* the call the step makes on the application's Snapshot object
CallMade == snap'.ops[Len(snap'.ops)]

====
